---- MODULE Spec2Model ----
(***************************************************************************)
(* Verification model of pysisyphus: the string optimizer                  *)
(* (optimizers/StringOptimizer.py), the calculator getter of run.py,       *)
(* Calculator.run (calculators/Calculator.py), the reparametrization of    *)
(* the zero temperature string (cos/SimpleZTS.py) and the base class of    *)
(* the internal coordinates (intcoords/Primitive.py), and the driver       *)
(* functions of run.py: run_calculations, main, run_preopt,                *)
(* get_calc_closure and get_last_calc_cycle.                               *)
(*                                                                         *)
(* Floating point numbers are modelled as extended rationals <<n, d>>      *)
(* with d >= 0 in lowest terms; d = 0 encodes the non-finite values:       *)
(* <<1,0>> = +inf, <<-1,0>> = -inf, <<0,0>> = nan.  Rounding is not        *)
(* modelled; division by zero and nan propagation are.                     *)
(***************************************************************************)
EXTENDS Integers, Sequences, FiniteSets, TLC

\* ------------------------------------------------------------------------
\* Bounds of the model
\* ------------------------------------------------------------------------
\* max_cycles handed to the optimizer
MaxCycles == 3
\* final number of images of a growing path
MaxImages == 3
\* largest configured stop_in_when_full
MaxStopIn == 2

\* number of components of the vectors handed to restrict_step_components
ClipDim == 2
\* number of successive restrict_step_components calls on one vector
MaxClipCalls == 2
\* number of geometries run_opt attaches calculators to
MaxGeoms == 3
\* number of Calculator.run calls per calculator
MaxRuns == 2
\* largest last_calc_cycle of a restart
MaxLastCycle == 2
\* largest number of images of a zero temperature string
MaxZtsImages == 4
\* number of successive reparametrize calls on one string
MaxReparam == 2
\* coords_length of the images of a zero temperature string
CoordsLength == 2
\* largest denominator of a coordinate of a string that is reparametrized
MaxDenominator == 16
\* number of changes the caller makes to the list it gave a Primitive
MaxChanges == 1
\* largest number of geometries handed to run_calculations
MaxCalcs == 4
\* largest number of geometries in the xyz handed to run_preopt
MaxPreoptGeoms == 5
\* number of calls of one getter made by get_calc_closure
MaxGetterCalls == 3
\* largest number of calculator logs of one cycle
MaxLogs == 2

\* ------------------------------------------------------------------------
\* Floating point arithmetic (numpy float64 semantics, without rounding)
\* ------------------------------------------------------------------------
IAbs(i) == IF i < 0 THEN -i ELSE i

ISign(i) == IF i < 0 THEN -1 ELSE IF i > 0 THEN 1 ELSE 0

RECURSIVE Gcd(_, _)
Gcd(a, b) == IF b = 0 THEN a ELSE Gcd(b, a % b)

\* the float with numerator n and denominator d >= 0
Flt(n, d) ==
    IF d = 0 THEN <<ISign(n), 0>>
    ELSE LET g == Gcd(IAbs(n), d) IN <<n \div g, d \div g>>

NaN == <<0, 0>>
Zero == <<0, 1>>
One == <<1, 1>>

IsNaN(a) == a = NaN
FAdd(a, b) ==
    IF IsNaN(a) \/ IsNaN(b) THEN NaN
    ELSE IF a[2] = 0 /\ b[2] = 0 THEN (IF a[1] = b[1] THEN a ELSE NaN)
    ELSE IF a[2] = 0 THEN a
    ELSE IF b[2] = 0 THEN b
    ELSE LET g == Gcd(a[2], b[2])
         IN  Flt(a[1] * (b[2] \div g) + b[1] * (a[2] \div g),
                 (a[2] \div g) * b[2])

\* common factors are cancelled before the products are taken
FMul(a, b) ==
    IF a[2] = 0 \/ b[2] = 0 THEN Flt(a[1] * b[1], a[2] * b[2])
    ELSE LET g == Gcd(IAbs(a[1]), b[2])
             h == Gcd(IAbs(b[1]), a[2])
         IN  Flt((a[1] \div g) * (b[1] \div h),
                 (a[2] \div h) * (b[2] \div g))

FDiv(a, b) ==
    IF IsNaN(a) \/ IsNaN(b) THEN NaN
    ELSE IF b[1] < 0 THEN FMul(a, <<-b[2], -b[1]>>)
    ELSE FMul(a, <<b[2], b[1]>>)

\* a < b; every comparison with nan is false
FLess(a, b) ==
    IF IsNaN(a) \/ IsNaN(b) THEN FALSE
    ELSE IF a[2] = 0 /\ b[2] = 0 THEN a[1] < b[1]
    ELSE a[1] * b[2] < b[1] * a[2]

FLeq(a, b) == (~IsNaN(a)) /\ (~IsNaN(b)) /\ ~FLess(b, a)

FAbs(a) == <<IAbs(a[1]), a[2]>>

FNeg(a) == <<-a[1], a[2]>>

\* np.sign: -1, 0, 1, and nan for nan
FSign(a) == IF IsNaN(a) THEN NaN ELSE <<ISign(a[1]), 1>>

\* Python's builtin min(a, b): b if b < a else a
PyMin(a, b) == IF FLess(b, a) THEN b ELSE a

RECURSIVE SumSqFrom(_, _)
SumSqFrom(v, i) ==
    IF i > Len(v) THEN Zero ELSE FAdd(FMul(v[i], v[i]), SumSqFrom(v, i + 1))

\* np.linalg.norm(v)**2
NormSq(v) == SumSqFrom(v, 1)

FSub(a, b) == FAdd(a, FNeg(b))

RECURSIVE DotFrom(_, _, _)
DotFrom(a, b, i) ==
    IF i > Len(a) THEN Zero ELSE FAdd(FMul(a[i], b[i]), DotFrom(a, b, i + 1))

Cube(a) == FMul(a, FMul(a, a))

\* the largest r in lo..hi with r * r <= n
RECURSIVE ISqrtIn(_, _, _)
ISqrtIn(n, lo, hi) ==
    IF lo >= hi THEN lo
    ELSE LET mid == (lo + hi + 1) \div 2
         IN  IF mid * mid <= n THEN ISqrtIn(n, mid, hi)
             ELSE ISqrtIn(n, lo, mid - 1)

ISqrt(n) == ISqrtIn(n, 0, IF n < 46340 THEN n ELSE 46340)

IsSquare(n) == n >= 0 /\ ISqrt(n) * ISqrt(n) = n

\* the floats whose square root is a rational, the only ones np.sqrt is
\* applied to in this model
ExactSqrt(a) == a[2] = 0 \/ a[1] < 0 \/ (IsSquare(a[1]) /\ IsSquare(a[2]))

\* np.sqrt: nan for nan and for negative numbers
FSqrt(a) ==
    IF IsNaN(a) \/ a[1] < 0 THEN NaN
    ELSE IF a[2] = 0 THEN a
    ELSE <<ISqrt(a[1]), ISqrt(a[2])>>

\* np.linalg.norm(v)
Norm(v) == FSqrt(NormSq(v))

\* ndarray.max() of a non-empty array: nan as soon as one entry is nan
RECURSIVE MaxFrom(_, _)
MaxFrom(v, i) ==
    IF i = Len(v) THEN v[i]
    ELSE LET rest == MaxFrom(v, i + 1)
         IN  IF IsNaN(v[i]) \/ IsNaN(rest) THEN NaN
             ELSE IF FLess(v[i], rest) THEN rest ELSE v[i]

FMax(v) == MaxFrom(v, 1)

\* ------------------------------------------------------------------------
\* Inputs
\* ------------------------------------------------------------------------
\* default gamma = 1.25
DefaultGamma == <<5, 4>>
\* default max_step = 0.1
DefaultMaxStep == <<1, 10>>

\* the first two force components a calculator may return: a zero vector,
\* small forces (the step stays below max_step), large ones (the step is
\* clipped) and mixtures
ForcePairs == {<<Zero, Zero>>, <<<<1, 20>>, Zero>>, <<<<1, 20>>, <<1, 20>>>>,
               <<<<-1, 1>>, <<1, 20>>>>, <<<<-1, 1>>, <<-1, 1>>>>}

\* force vectors of n components: the components after the second repeat
\* the second
Vectors(n) ==
    {[i \in 1..n |-> IF i = 1 THEN p[1] ELSE p[2]] : p \in ForcePairs}

\* step components handed to restrict_step_components on their own
StepVals == {<<0, 1>>, <<1, 20>>, <<1, 10>>, <<-1, 10>>, <<1, 5>>, <<-1, 1>>,
             <<1, 2>>, NaN}

\* values of max_step
MaxStepVals == {<<1, 10>>, <<1, 2>>}

\* the float of an integer
FInt(i) == <<i, 1>>

\* ndarray.flatten() of a two-dimensional array, row by row
Flatten(m) ==
    IF Len(m) = 0 THEN <<>>
    ELSE [k \in 1..(Len(m) * Len(m[1])) |->
             m[((k - 1) \div Len(m[1])) + 1][((k - 1) % Len(m[1])) + 1]]

\* an image with the first two coordinates a and b, the others zero
ZtsPoint(a, b) ==
    [d \in 1..CoordsLength |->
        IF d = 1 THEN FInt(a) ELSE IF d = 2 THEN FInt(b) ELSE Zero]

\* n images on the straight line through (0, 0) and (3, 4), the last
\* segment twice as long as the others
StraightPath(n) ==
    [i \in 1..n |-> IF i < n THEN ZtsPoint(3 * (i - 1), 4 * (i - 1))
                              ELSE ZtsPoint(3 * n, 4 * n)]

\* n images on a staircase whose segments have the lengths 1, 2, 1, 2, ...
BentPath(n) == [i \in 1..n |-> ZtsPoint(i \div 2, 2 * ((i - 1) \div 2))]

\* n images at the same place
CoincidentPath(n) == [i \in 1..n |-> ZtsPoint(1, 1)]

\* a straight path whose first two images coincide
DoubledPath(n) ==
    [i \in 1..n |-> IF i = 1 THEN ZtsPoint(0, 0)
                              ELSE ZtsPoint(3 * (i - 2), 4 * (i - 2))]

\* the coordinate vectors of the strings of n images
ZtsPaths(n) ==
    {Flatten(StraightPath(n)), Flatten(BentPath(n)),
     Flatten(CoincidentPath(n)), Flatten(DoubledPath(n))}

\* image.energy of an image that was never calculated
NoEnergy == <<>>

\* energies of n images: the first, the third and all the others; every
\* weight that follows from them is the square root of a rational square
EnergyTriples == {<<1, 1, 1>>, <<0, 0, 0>>, <<1, -1, -1>>, <<-7, -1, -1>>,
                  <<1, 1, 7>>}

ZtsEnergies(n) ==
    {[i \in 1..n |-> IF i = 1 THEN FInt(e[1])
                      ELSE IF i = 3 THEN FInt(e[3]) ELSE FInt(e[2])]
        : e \in EnergyTriples}
    \cup {[i \in 1..n |-> IF i = 2 THEN NoEnergy ELSE One]}

\* values of the param argument of SimpleZTS
ZtsParams == {"equal", "energy", "linear"}

\* the float vector of a tuple of integers
FVec(t) == [i \in 1..Len(t) |-> FInt(t[i])]

\* vectors handed to Primitive.parallel; the norm of each is an integer
ParVectors ==
    {FVec(t) : t \in {<<1, 0, 0>>, <<0, 1, 0>>, <<0, 0, 2>>, <<-1, 0, 0>>,
                      <<3, 4, 0>>, <<6, 8, 0>>, <<-3, -4, 0>>, <<4, -3, 0>>,
                      <<0, 0, 0>>}}

\* default thresh = 1e-6 of Primitive.parallel
DefaultThresh == <<1, 1000000>>

\* values of thresh
ThreshVals == {DefaultThresh, <<1, 2>>}

\* atom symbols handed to Primitive.rho, in both cases
RhoAtoms == {<<"H", "H", "O">>, <<"h", "H", "o">>, <<"O", "h", "H">>}

\* three atoms on the x axis at the places xs
OnAxis(xs) == [a \in 1..Len(xs) |-> <<xs[a], Zero, Zero>>]

\* coordinates handed to Primitive.rho: the first two atoms are 0.62, 1.0
\* and 1.5 apart, the first and the third 2.0, 0.97 and 2.0
RhoCoords3d ==
    {OnAxis(<<Zero, <<31, 50>>, FInt(2)>>),
     OnAxis(<<Zero, One, <<97, 100>>>>),
     OnAxis(<<Zero, <<3, 2>>, FInt(2)>>)}

\* index lists handed to the constructor of a Primitive
IndexLists == {<<0, 1>>, <<2, 1, 0>>}

\* an argument that is left out, and one that is given
Default == [given |-> FALSE]

Given(value) == [given |-> TRUE, value |-> value]

\* the indices argument of calculate and jacobian
IndicesArgs == {Default, Given(<<1, 0>>), Given(<<-1, 0>>)}

\* default f_damping = 0.12 of Primitive.weight
DefaultDamping == <<3, 25>>

\* the f_damping argument of weight
DampingArgs == {Default, Given(<<1, 2>>)}

\* the calc_kwargs argument of the constructor: None, or the names of the
\* attributes to hand on
CalcKwargsArgs == {Default, Given(<<"periodic">>)}

\* the decimal digit d as a string
Digit(d) == <<"0", "1", "2", "3", "4", "5", "6", "7", "8", "9">>[d + 1]

\* str(n) of n >= 0, digit by digit
RECURSIVE Digits(_)
Digits(n) ==
    IF n < 10 THEN <<Digit(n)>> ELSE Append(Digits(n \div 10), Digit(n % 10))

\* zeros in front of the digits up to the width
RECURSIVE ZeroPad(_, _)
ZeroPad(digits, width) ==
    IF Len(digits) >= width THEN digits
    ELSE ZeroPad(<<"0">> \o digits, width)

\* f"{index:03d}"
Format03d(index) == ZeroPad(Digits(index), 3)

VARIABLES
    pc,               \* position of the optimizer run
    is_cos,           \* Optimizer.is_cos
    align,            \* Optimizer.align
    is_cart_opt,      \* StringOptimizer.is_cart_opt
    gamma,            \* StringOptimizer.gamma
    max_step,         \* Optimizer.max_step
    stop_in_when_full,\* StringOptimizer.stop_in_when_full
    stop_in,          \* StringOptimizer.stop_in
    cur_cycle,        \* Optimizer.cur_cycle
    nimages,          \* len(geometry.images)
    coords,           \* Optimizer.coords, as the .size of every entry
    forces,           \* Optimizer.forces
    steps,            \* Optimizer.steps
    events,           \* what the last optimizer handler did, in order
    info,             \* intermediate values of the last cycle
    clip_steps,       \* the array handed to restrict_step_components
    clip_orig,        \* its content before the first call
    clip_max_step,    \* max_step of these calls
    clip_calls,       \* number of calls so far
    calc_key,         \* run_dict["calc"]["type"]
    calc_kwargs,      \* run_dict["calc"], the dict shared by all getter calls
    calcs,            \* the calculator objects, in order of creation
    image_calc,       \* image.calculator of every image that has one
    ngeoms,           \* len(geom.images)
    to_keep,          \* Calculator.to_keep
    proc,             \* position of the pysisyphus process
    tmpdirs,          \* temporary directories that exist
    backups,          \* crashed_{name} directories that exist
    files,            \* files kept in the working directory
    run_info,         \* what the last Calculator.run did
    zts_pc,           \* position of the user of the SimpleZTS
    zts_param,        \* SimpleZTS.param
    zts_coords,       \* SimpleZTS.coords, the images' coordinates in a row
    zts_energies,     \* image.energy of every image
    zts_calls,        \* number of reparametrize calls so far
    zts_info,         \* what the last reparametrize did
    par_call,         \* the last Primitive.parallel call and its result
    rho_call,         \* the last Primitive.rho call and its result
    prim_pc,          \* position of the user of the Primitive
    lists,            \* the list objects, in order of creation
    prim_indices,     \* Primitive.indices, a list object
    prim_periodic,    \* Primitive.periodic
    prim_calc_kwargs, \* Primitive.calc_kwargs
    prim_made,        \* what the constructor was given
    prim_call,        \* the last calculate, jacobian or weight call
    prim_changes,     \* number of changes of the caller's list so far
    rc_pc,            \* position of run_calculations
    rc_scheduler,     \* whether a scheduler was given
    rc_chkfiles,      \* whether the calculators have set/get_chkfiles
    rc_geoms,         \* len(geoms)
    rc_i,             \* the loop variable i
    rc_chk,           \* the checkpoint data every calculator holds
    rc_log,           \* the calls run_calculations made, in order
    main_pc,          \* position of main
    run_dict,         \* run_dict: the keys of every section, or None
    main_given,       \* run_dict as main was called with it
    dryrun,           \* the dryrun argument of main
    geom_is_cos,      \* isinstance(geom, ChainOfStates.ChainOfStates)
    ran_irc,          \* ran_irc of main
    main_log,         \* the stages main ran, in order
    pre_pc,           \* position of run_preopt
    preopt_kwargs,    \* the dict preopt_kwargs
    pre_preopt,       \* the local preopt: "first", "last" or "both"
    pre_strict,       \* the local strict
    pre_geoms,        \* the geometries get_geoms made of xyz
    pre_todo,         \* what is left of to_preopt[preopt]
    pre_files,        \* the files in the working directory
    out_xyz,          \* the list out_xyz
    clos_pc,          \* position of the user of get_calc_closure
    clos_kwargs,      \* the dict calc_kwargs handed to get_calc_closure
    clos_given,       \* its content at that call
    clos_index,       \* the nonlocal index of the getter
    clos_calcs,       \* the calculators the getter made, in order
    lc_pc,            \* position of get_last_calc_cycle
    lc_counts,        \* the number of calculator logs of every cycle
    lc_logs,          \* the log files in the working directory
    lc_result         \* what get_last_calc_cycle returned

optvars == <<pc, is_cos, align, is_cart_opt, gamma, max_step,
             stop_in_when_full, stop_in, cur_cycle, nimages, coords,
             forces, steps, events, info>>

clipvars == <<clip_steps, clip_orig, clip_max_step, clip_calls>>

calcvars == <<calc_key, calc_kwargs, calcs, image_calc, ngeoms, to_keep,
              proc, tmpdirs, backups, files, run_info>>

ztsvars == <<zts_pc, zts_param, zts_coords, zts_energies, zts_calls,
             zts_info>>

primvars == <<prim_pc, lists, prim_indices, prim_periodic, prim_calc_kwargs,
              prim_made, prim_call, prim_changes>>

intvars == <<par_call, rho_call, primvars>>

rcvars == <<rc_pc, rc_scheduler, rc_chkfiles, rc_geoms, rc_i, rc_chk, rc_log>>

mainvars == <<main_pc, run_dict, main_given, dryrun, geom_is_cos, ran_irc,
              main_log>>

preoptvars == <<pre_pc, preopt_kwargs, pre_preopt, pre_strict, pre_geoms,
                pre_todo, pre_files, out_xyz>>

closvars == <<clos_pc, clos_kwargs, clos_given, clos_index, clos_calcs>>

lcvars == <<lc_pc, lc_counts, lc_logs, lc_result>>

runvars == <<rcvars, mainvars, preoptvars, closvars, lcvars>>

geomvars == <<ztsvars, intvars, runvars>>

vars == <<optvars, clipvars, calcvars, geomvars>>

Range(s) == {s[i] : i \in DOMAIN s}

Last(s) == s[Len(s)]

\* geometry.coords.size: one coordinate per image
CoordsSize(n) == n

\* geometry.fully_grown
FullyGrown(n) == n = MaxImages

NoInfo == [cycle |-> -1, string_size_changed |-> FALSE, phase |-> "NONE",
           sd_step |-> <<>>, quot |-> Zero, unclipped |-> <<>>,
           fully_grown |-> FALSE, converged |-> FALSE, full_stop |-> FALSE,
           is_converged |-> FALSE, stop_in_before |-> 0]

NoCall == [op |-> "none"]

NoReparam == [status |-> "none", u |-> <<>>, before |-> <<>>,
              summed |-> <<>>, arc_segments |-> <<>>]

NoRun == [calc |-> 0, fail |-> "none", raised |-> "none",
          returned |-> FALSE, events |-> <<>>, counter |-> 0]

\* ------------------------------------------------------------------------
\* Initial states of the parts
\* ------------------------------------------------------------------------
OptInit ==
    /\ pc = "new"
    /\ is_cos \in BOOLEAN
    /\ align \in BOOLEAN
    /\ is_cart_opt \in BOOLEAN
    /\ gamma = DefaultGamma
    /\ max_step = DefaultMaxStep
    /\ stop_in_when_full \in -1..MaxStopIn
    /\ stop_in = 0
    /\ cur_cycle = 0
    /\ nimages \in 2..MaxImages
    /\ coords = <<>>
    /\ forces = <<>>
    /\ steps = <<>>
    /\ events = <<>>
    /\ info = NoInfo

OptIdle ==
    /\ pc = "idle"
    /\ is_cos = TRUE
    /\ align = FALSE
    /\ is_cart_opt = FALSE
    /\ gamma = DefaultGamma
    /\ max_step = DefaultMaxStep
    /\ stop_in_when_full = -1
    /\ stop_in = 0
    /\ cur_cycle = 0
    /\ nimages = 2
    /\ coords = <<>>
    /\ forces = <<>>
    /\ steps = <<>>
    /\ events = <<>>
    /\ info = NoInfo

ClipInit ==
    /\ clip_steps \in [1..ClipDim -> StepVals]
    /\ clip_orig = clip_steps
    /\ clip_max_step \in MaxStepVals
    /\ clip_calls = 0

ClipIdle ==
    /\ clip_steps = <<>>
    /\ clip_orig = <<>>
    /\ clip_max_step = DefaultMaxStep
    /\ clip_calls = MaxClipCalls

\* last_calc_cycle=None
NoLastCycle == -1

\* the files that the cycles 0 .. k of n images have kept
KeptFiles(n, k, keep) ==
    {<<name, counter, ext>> :
        name \in 0..(n - 1), counter \in 0..k, ext \in keep}

\* run_dict["calc"] without its type: main adds last_calc_cycle on a restart
CalcInit ==
    /\ calc_key \in {"xtb", "afir", "dimer"}
    /\ ngeoms \in 1..MaxGeoms
    /\ to_keep \in {{}, {"wfn"}}
    /\ \E last_calc_cycle \in {NoLastCycle} \cup (0..MaxLastCycle) :
           /\ calc_kwargs =
                  (IF last_calc_cycle = NoLastCycle THEN <<>>
                   ELSE ("last_calc_cycle" :> last_calc_cycle)) @@
                  (IF calc_key = "xtb" THEN <<>> ELSE ("calc" :> "xtb"))
           /\ files = IF last_calc_cycle >= 1
                      THEN KeptFiles(ngeoms, last_calc_cycle, to_keep)
                      ELSE {}
    /\ calcs = <<>>
    /\ image_calc = <<>>
    /\ proc = "run_opt"
    /\ tmpdirs = {}
    /\ backups = {}
    /\ run_info = NoRun

CalcIdle ==
    /\ calc_key = "xtb"
    /\ calc_kwargs = <<>>
    /\ calcs = <<>>
    /\ image_calc = <<>>
    /\ ngeoms = 0
    /\ to_keep = {}
    /\ proc = "idle"
    /\ tmpdirs = {}
    /\ backups = {}
    /\ files = {}
    /\ run_info = NoRun

ZtsInit ==
    /\ zts_pc = "new"
    /\ zts_param = "unset"
    /\ \E n \in 2..MaxZtsImages :
           /\ zts_coords \in ZtsPaths(n)
           /\ zts_energies \in ZtsEnergies(n)
    /\ zts_calls = 0
    /\ zts_info = NoReparam

ZtsIdle ==
    /\ zts_pc = "idle"
    /\ zts_param = "unset"
    /\ zts_coords = <<>>
    /\ zts_energies = <<>>
    /\ zts_calls = 0
    /\ zts_info = NoReparam

\* no call of the static methods yet
IntInit ==
    /\ par_call = NoCall
    /\ rho_call = NoCall

PrimInit ==
    /\ prim_pc = "new"
    /\ lists \in {<<indices>> : indices \in IndexLists}
    /\ prim_indices = 0
    /\ prim_periodic = FALSE
    /\ prim_calc_kwargs = <<>>
    /\ prim_made = NoCall
    /\ prim_call = NoCall
    /\ prim_changes = 0

PrimIdle ==
    /\ prim_pc = "idle"
    /\ lists = <<>>
    /\ prim_indices = 0
    /\ prim_periodic = FALSE
    /\ prim_calc_kwargs = <<>>
    /\ prim_made = NoCall
    /\ prim_call = NoCall
    /\ prim_changes = 0

IntIdle == IntInit /\ PrimIdle

\* a calculator without checkpoint data
NoChk == -1

RcInit ==
    /\ rc_pc = "start"
    /\ rc_scheduler \in BOOLEAN
    /\ rc_chkfiles \in BOOLEAN
    /\ rc_geoms \in 1..MaxCalcs
    /\ rc_i = 0
    /\ rc_chk = <<>>
    /\ rc_log = <<>>

RcIdle ==
    /\ rc_pc = "idle"
    /\ rc_scheduler = FALSE
    /\ rc_chkfiles = FALSE
    /\ rc_geoms = 0
    /\ rc_i = 0
    /\ rc_chk = <<>>
    /\ rc_log = <<>>

\* a section of run_dict that is None; the others are the sets of their keys
NoSection == {"None"}

\* the sections of run_dict that main looks at
Sections == {"preopt", "endopt", "opt", "cos", "stocastic", "tsopt", "irc"}

\* a section as main gets it: None, a dict of "type" alone, or one with
\* another option
SectionValues == {NoSection, {"type"}, {"type", "thresh"}}

MainInit ==
    /\ main_pc = "start"
    /\ run_dict \in [Sections -> SectionValues]
    /\ main_given = run_dict
    /\ dryrun \in BOOLEAN
    /\ geom_is_cos = FALSE
    /\ ran_irc = FALSE
    /\ main_log = <<>>

MainIdle ==
    /\ main_pc = "idle"
    /\ run_dict = [key \in Sections |-> NoSection]
    /\ main_given = run_dict
    /\ dryrun = FALSE
    /\ geom_is_cos = FALSE
    /\ ran_irc = FALSE
    /\ main_log = <<>>

\* the structure of geometry number i of the input, as it was read or as
\* an optimization left it
Structure(i, state) == [geom |-> i, state |-> state]

\* the geometries of an xyz with n structures
InputGeoms(n) == [i \in 1..n |-> Structure(i, "input")]

\* the preopt section main hands over: the options that may be absent
PreoptKwargs ==
    {[key \in keys |-> IF key = "preopt" THEN mode
                       ELSE IF key = "strict" THEN strict ELSE "gau_loose"] :
        keys \in {{"thresh"}, {"thresh", "preopt"}, {"thresh", "strict"},
                  {"thresh", "preopt", "strict"}},
        mode \in {"first", "last", "both"}, strict \in BOOLEAN}

PreoptInit ==
    /\ pre_pc = "start"
    /\ preopt_kwargs \in PreoptKwargs
    /\ pre_preopt = "unset"
    /\ pre_strict = FALSE
    /\ pre_geoms \in {InputGeoms(n) : n \in 2..MaxPreoptGeoms}
    /\ pre_todo = <<>>
    /\ pre_files = <<>>
    /\ out_xyz = <<>>

PreoptIdle ==
    /\ pre_pc = "idle"
    /\ preopt_kwargs = <<>>
    /\ pre_preopt = "unset"
    /\ pre_strict = FALSE
    /\ pre_geoms = <<>>
    /\ pre_todo = <<>>
    /\ pre_files = <<>>
    /\ out_xyz = <<>>

\* A value of calc_kwargs with its type.  A string is kept as the sequence
\* of its parts, of which "$IMAGE" is one; a number and a nested dict are
\* kept as their text.
Str(parts) == [type |-> "str", value |-> parts]

Num(parts) == [type |-> "int", value |-> parts]

Dict(parts) == [type |-> "dict", value |-> parts]

\* the options of a calc section
ClosOptions ==
    [pal : {Num(<<"1">>)},
     chkfile : {Str(<<"wfn_", "$IMAGE", ".chk">>), Str(<<"wfn.chk">>)},
     fn : {Str(<<"$IMAGE">>), Str(<<"a", "$IMAGE", "b", "$IMAGE">>)},
     calc : {Dict(<<"{", "fn", ":", "$IMAGE", "}">>)}]

\* the calc sections: some of the options
ClosKwargs ==
    {[key \in keys |-> options[key]] :
        keys \in SUBSET {"pal", "chkfile", "fn", "calc"},
        options \in ClosOptions}

ClosInit ==
    /\ clos_pc = "new"
    /\ clos_kwargs \in ClosKwargs
    /\ clos_given = clos_kwargs
    /\ clos_index = 0
    /\ clos_calcs = <<>>

ClosIdle ==
    /\ clos_pc = "idle"
    /\ clos_kwargs = <<>>
    /\ clos_given = <<>>
    /\ clos_index = 0
    /\ clos_calcs = <<>>

\* the calc_counter values that logs may be left of
CycleNumbers == {0, 1, 2, 998, 999, 1000}

\* Calculator.make_fn for the log of image number and cycle counter: the
\* parts of f"{self.name}.{counter:03d}.{ext}" that differ between logs
LogFn(number, counter) == [image |-> number, cycle |-> Format03d(counter)]

\* the logs in a directory that holds counts[c] logs of cycle c
LogFiles(counts) ==
    {LogFn(number, c) : <<number, c>> \in
        {nc \in (0..(MaxLogs - 1)) \X CycleNumbers : nc[1] < counts[nc[2]]}}

LcInit ==
    /\ lc_pc = "start"
    /\ lc_counts \in [CycleNumbers -> 0..MaxLogs]
    /\ lc_logs = LogFiles(lc_counts)
    /\ lc_result = -1

LcIdle ==
    /\ lc_pc = "idle"
    /\ lc_counts = [c \in CycleNumbers |-> 0]
    /\ lc_logs = {}
    /\ lc_result = -1

RunIdle == RcIdle /\ MainIdle /\ PreoptIdle /\ ClosIdle /\ LcIdle

GeomIdle == ZtsIdle /\ IntIdle /\ RunIdle

\* ------------------------------------------------------------------------
\* StringOptimizer
\* ------------------------------------------------------------------------
\* a slip: the clipped component loses its sign
restrict_step_components_NoSign(step, maxstep) ==
    [i \in 1..Len(step) |->
        IF FLess(maxstep, FAbs(step[i])) THEN maxstep ELSE step[i]]

\* StringOptimizer.restrict_step_components
restrict_step_components(step, maxstep) ==
    [i \in 1..Len(step) |->
        IF FLess(maxstep, FAbs(step[i]))
        THEN FMul(FSign(step[i]), maxstep)
        ELSE step[i]]

\* string_size_changed of optimize; cs is Optimizer.coords with the entry
\* of the running cycle already appended
StringSizeChanged(cs, size) ==
    IF Len(cs) < 2 THEN TRUE ELSE size # cs[Len(cs) - 1]

\* a slip: the forces are multiplied by gamma
SdStep_TimesGamma(f, g) == [i \in 1..Len(f) |-> FMul(f[i], g)]

\* sd_step = forces / self.gamma
SdStep(f, g) == [i \in 1..Len(f) |-> FDiv(f[i], g)]

\* quot = min(cur_norm**2 / prev_norm**2, 1)
Quot(f, fprev) == PyMin(FDiv(NormSq(f), NormSq(fprev)), One)

\* sd_step + quot*self.steps[-1]
CGStep(sd, q, prev) == [i \in 1..Len(sd) |-> FAdd(sd[i], FMul(q, prev[i]))]

\* steepest descent in the beginning
TakeSD(cycle, changed) == (cycle = 0) \/ changed

\* a slip: the coordinate type is not looked at
DoAlign_IgnoreCart(al, changed, cart) == al /\ changed

\* align and string_size_changed and is_cart_opt
DoAlign(al, changed, cart) == al /\ changed /\ cart

\* full_stop = fully_grown and (stop_in == 0)
FullStop(grown, si) == grown /\ (si = 0)

\* a slip: the decrement is missing
StopInAfter_Kept(grown, si) == si

\* self.stop_in after the decrement of check_convergence
StopInAfter(grown, si) == IF grown THEN si - 1 ELSE si

\* a slip: full_stop is dropped from the verdict
CheckConvergence_GenericOnly(fullstop, converged) == converged

\* return full_stop or converged
CheckConvergence(fullstop, converged) == fullstop \/ converged

\* a slip: the assertion is missing
AssertIsCos_Missing(cos) == TRUE

\* assert self.is_cos
AssertIsCos(cos) == cos

\* a slip: the countdown starts at the configured value
InitialStopIn_Plain(n) == n

\* self.stop_in = self.stop_in_when_full + 1
InitialStopIn(n) == n + 1

\* StringOptimizer.__init__
Construct ==
    /\ pc = "new"
    /\ IF AssertIsCos(is_cos)
       THEN /\ pc' = "constructed"
            /\ stop_in' = InitialStopIn(stop_in_when_full)
       ELSE /\ pc' = "AssertionError"
            /\ UNCHANGED stop_in
    /\ events' = <<"__init__">>
    /\ UNCHANGED <<is_cos, align, is_cart_opt, gamma, max_step,
                   stop_in_when_full, cur_cycle, nimages, coords, forces,
                   steps, info>>
    /\ UNCHANGED <<clipvars, calcvars, geomvars>>

\* StringOptimizer.prepare_opt, called once by Optimizer.run before the
\* first cycle
PrepareOpt ==
    /\ pc = "constructed"
    /\ pc' = "running"
    /\ events' = <<"prepare_opt">> \o
                 (IF align /\ is_cart_opt THEN <<"procrustes">> ELSE <<>>)
    /\ UNCHANGED <<is_cos, align, is_cart_opt, gamma, max_step,
                   stop_in_when_full, stop_in, cur_cycle, nimages, coords,
                   forces, steps, info>>
    /\ UNCHANGED <<clipvars, calcvars, geomvars>>

\* StringOptimizer.optimize.  cs, fs and ss are Optimizer.coords, .forces
\* and .steps at the call (cs with the entry of the running cycle), size is
\* geometry.coords.size and f are the forces the geometry returns.
optimize(cs, fs, ss, size, f, cycle, al, cart, g, m) ==
    LET changed == StringSizeChanged(cs, size)
        aligned == DoAlign(al, changed, cart)
        fs1 == Append(fs, f)
        sd == SdStep(f, g)
        sdphase == TakeSD(cycle, changed)
        q == IF sdphase THEN Zero ELSE Quot(f, fs1[Len(fs1) - 1])
        raw == IF sdphase THEN sd ELSE CGStep(sd, q, ss[Len(ss)])
    IN [string_size_changed |-> changed,
        events |-> (IF aligned THEN <<"procrustes">> ELSE <<>>) \o
                   <<"forces", "step">>,
        forces |-> fs1,
        sd_step |-> sd,
        phase |-> IF sdphase THEN "WARMUP" ELSE "STEADY",
        quot |-> q,
        unclipped |-> raw,
        step |-> restrict_step_components(raw, m)]

\* StringOptimizer.check_convergence.  converged is the verdict of
\* Optimizer.check_convergence, grown is geometry.fully_grown and si is
\* self.stop_in at the call.
check_convergence(converged, grown, si) ==
    LET si1 == StopInAfter(grown, si)
        fullstop == FullStop(grown, si1)
    IN [stop_in |-> si1, full_stop |-> fullstop,
        ret |-> CheckConvergence(fullstop, converged)]

\* One cycle of Optimizer.run: record the coordinates, optimize(), record
\* the step, check_convergence() and leave the loop when it says so, else
\* apply the step and let the path reparametrize, which may add an image.
\* f are the forces of the geometry, conv the verdict of the generic
\* convergence check, grow whether the path adds an image.
Cycle(f, conv, grow) ==
    /\ pc = "running"
    /\ cur_cycle < MaxCycles
    /\ LET size == CoordsSize(nimages)
           cs == Append(coords, size)
           o == optimize(cs, forces, steps, size, f, cur_cycle, align,
                         is_cart_opt, gamma, max_step)
           grown == FullyGrown(nimages)
           c == check_convergence(conv, grown, stop_in)
       IN /\ coords' = cs
          /\ forces' = o.forces
          /\ steps' = Append(steps, o.step)
          /\ stop_in' = c.stop_in
          /\ events' = <<"optimize">> \o o.events \o <<"check_convergence">>
          /\ info' = [cycle |-> cur_cycle,
                      string_size_changed |-> o.string_size_changed,
                      phase |-> o.phase,
                      sd_step |-> o.sd_step, quot |-> o.quot,
                      unclipped |-> o.unclipped,
                      fully_grown |-> grown, converged |-> conv,
                      full_stop |-> c.full_stop, is_converged |-> c.ret,
                      stop_in_before |-> stop_in]
          /\ IF c.ret
             THEN /\ pc' = "converged"
                  /\ UNCHANGED <<cur_cycle, nimages>>
             ELSE /\ cur_cycle' = cur_cycle + 1
                  /\ nimages' = IF grow THEN nimages + 1 ELSE nimages
                  /\ pc' = IF cur_cycle + 1 = MaxCycles
                           THEN "max_cycles" ELSE "running"
    /\ UNCHANGED <<is_cos, align, is_cart_opt, gamma, max_step,
                   stop_in_when_full>>
    /\ UNCHANGED <<clipvars, calcvars, geomvars>>

RunCycle ==
    \E conv \in BOOLEAN, grow \in BOOLEAN :
        /\ grow => nimages < MaxImages
        /\ \E f \in Vectors(CoordsSize(nimages)) : Cycle(f, conv, grow)

\* one call of restrict_step_components on the array clip_steps, which is
\* changed in place and returned
RestrictStep ==
    /\ clip_calls < MaxClipCalls
    /\ clip_steps' = restrict_step_components(clip_steps, clip_max_step)
    /\ clip_calls' = clip_calls + 1
    /\ UNCHANGED <<clip_orig, clip_max_step>>
    /\ UNCHANGED <<optvars, calcvars, geomvars>>

\* ------------------------------------------------------------------------
\* Calculators: get_calc, run_opt and Calculator.run
\* ------------------------------------------------------------------------
\* Calculator.reattach: of the two definitions in the class body the later
\* one is the method
Reattach(calc_counter) == calc_counter

\* calc_counter when __init__ is done: 0, or on a restart
\* int(last_calc_cycle)+1 and then what reattach makes of it
InitialCounter(last_calc_cycle) ==
    IF last_calc_cycle = NoLastCycle \/ last_calc_cycle = 0 THEN 0
    ELSE LET calc_counter == last_calc_cycle + 1
         IN  Reattach(last_calc_cycle)

\* Calculator.__init__: a calculator object; calculator is the wrapped
\* calculator of a wrapper such as AFIR or Dimer, 0 without one
NewCalc(key, index, inner, last_calc_cycle) ==
    [key |-> key, calc_number |-> index, calculator |-> inner,
     calc_counter |-> InitialCounter(last_calc_cycle),
     last_calc_cycle |-> last_calc_cycle]

\* kwargs_copy.get("last_calc_cycle")
LastCalcCycle(kw) ==
    IF "last_calc_cycle" \in DOMAIN kw THEN kw["last_calc_cycle"]
    ELSE NoLastCycle

\* the dict kw after kw.pop("calc")
PopCalc(kw) == [k \in (DOMAIN kw) \ {"calc"} |-> kw[k]]

\* get_calc(index, base_name, calc_key, calc_kwargs): the calculator objects
\* and the dict calc_kwargs after the call, and the calculator returned
get_calc(index, key, kw, heap) ==
    LET nested == "calc" \in DOMAIN kw
        heap1 == IF nested
                 THEN Append(heap, NewCalc(kw["calc"], index, 0, NoLastCycle))
                 ELSE heap
        kw1 == IF nested
               THEN ("calculator" :> Len(heap1)) @@ PopCalc(kw)
               ELSE kw
        inner == IF "calculator" \in DOMAIN kw1 THEN kw1["calculator"] ELSE 0
        heap2 == Append(heap1,
                        NewCalc(key, index, inner, LastCalcCycle(kw1)))
    IN [calc_kwargs |-> kw1, calcs |-> heap2, calc |-> Len(heap2)]

\* run_opt: image.set_calculator(calc_getter(i)) for the next image i, with
\* calc_getter = lambda index: get_calc(index, **calc_getter_kwargs) of main
SetCalculator ==
    /\ proc = "run_opt"
    /\ Len(image_calc) < ngeoms
    /\ LET i == Len(image_calc)
           r == get_calc(i, calc_key, calc_kwargs, calcs)
       IN /\ calc_kwargs' = r.calc_kwargs
          /\ calcs' = r.calcs
          /\ image_calc' = Append(image_calc, r.calc)
          /\ proc' = IF i + 1 = ngeoms THEN "attached" ELSE "run_opt"
    /\ UNCHANGED <<calc_key, ngeoms, to_keep, tmpdirs, backups, files,
                   run_info>>
    /\ UNCHANGED <<optvars, clipvars, geomvars>>

\* the places where a Calculator.run can fail
FailModes == {"none", "Popen", "run_after", "parser", "keep"}

\* the steps of the try block that are reached
TryEvents(fail) ==
    IF fail = "run_after" THEN <<"run_after">>
    ELSE IF fail = "parser" THEN <<"run_after", "parser">>
    ELSE <<"run_after", "parser", "keep">>

\* how Calculator.run ends: an error of subprocess.Popen is not handled,
\* any error in the try block ends in sys.exit()
RunRaises(fail) ==
    IF fail = "none" THEN "none"
    ELSE IF fail = "Popen" THEN "OSError"
    ELSE "SystemExit"

\* the number of times calculator c has run
RunsOf(c) ==
    calcs[c].calc_counter - InitialCounter(calcs[c].last_calc_cycle)

\* Calculator.run of calculator c
CalcRun(c, fail) ==
    /\ proc = "attached"
    /\ RunsOf(c) < MaxRuns
    /\ LET name == calcs[c].calc_number
           counter == calcs[c].calc_counter
           path == <<c, counter>>
           raised == RunRaises(fail)
           intry == fail # "Popen"
           crashed == fail \in {"run_after", "parser", "keep"}
       IN /\ tmpdirs' = IF intry THEN tmpdirs ELSE tmpdirs \cup {path}
          /\ files' = IF fail = "none"
                      THEN files \cup {<<name, counter, ext>> : ext \in to_keep}
                      ELSE files
          /\ backups' = IF crashed THEN backups \cup {name} ELSE backups
          /\ calcs' = IF intry
                      THEN [calcs EXCEPT ![c].calc_counter = counter + 1]
                      ELSE calcs
          /\ run_info' =
                 [calc |-> c, fail |-> fail, raised |-> raised,
                  returned |-> (raised = "none"),
                  counter |-> counter,
                  events |-> <<"prepare", "Popen">> \o
                             (IF intry THEN TryEvents(fail) ELSE <<>>) \o
                             (IF crashed THEN <<"backup", "sys.exit">>
                              ELSE <<>>) \o
                             (IF intry THEN <<"clean", "calc_counter">>
                              ELSE <<>>)]
          /\ proc' = IF raised = "SystemExit" THEN "exited"
                     ELSE IF raised = "none" THEN "attached"
                     ELSE "crashed"
    /\ UNCHANGED <<calc_key, calc_kwargs, image_calc, ngeoms, to_keep>>
    /\ UNCHANGED <<optvars, clipvars, geomvars>>

RunCalculator ==
    \E c \in 1..Len(calcs) : \E fail \in FailModes :
        /\ calcs[c].calculator = 0
        /\ CalcRun(c, fail)

\* ------------------------------------------------------------------------
\* SimpleZTS: the reparametrization of the string
\* ------------------------------------------------------------------------
\* ndarray.reshape(-1, length): one row per image
Reshape(cs, length) ==
    [i \in 1..(Len(cs) \div length) |->
        [d \in 1..length |-> cs[(i - 1) * length + d]]]

\* ndarray.transpose() of a two-dimensional array
Transpose(m) ==
    IF Len(m) = 0 THEN <<>>
    ELSE [d \in 1..Len(m[1]) |-> [i \in 1..Len(m) |-> m[i][d]]]

\* a - b of two arrays
VecSub(a, b) == [d \in 1..Len(a) |-> FSub(a[d], b[d])]

\* a / c of an array and a number
VecDiv(a, c) == [i \in 1..Len(a) |-> FDiv(a[i], c)]

\* np.linspace(0, 1, num=n)
Linspace(n) == [i \in 1..n |-> Flt(i - 1, n - 1)]

\* the mean energies of the segments, from the energies of the images
MeanEnergies(energies) ==
    [i \in 1..(Len(energies) - 1) |->
        FDiv(FAdd(energies[i + 1], energies[i]), FInt(2))]

\* weight_function of reparametrize
weight_function(mean_energies) ==
    LET absolute == [i \in DOMAIN mean_energies |-> FAbs(mean_energies[i])]
        largest == FMax(absolute)
    IN  [i \in DOMAIN absolute |-> FSqrt(FDiv(absolute[i], largest))]

\* the length of segment i, between the images i and i + 1
CoordDiff(images, i) == Norm(VecSub(images[i + 1], images[i]))

\* arc_segments before the normalization: the running sum of the weighted
\* lengths of the segments
RECURSIVE ArcSegmentsTo(_, _, _)
ArcSegmentsTo(images, weights, i) ==
    IF i = 1 THEN <<Zero>>
    ELSE LET arc_segments == ArcSegmentsTo(images, weights, i - 1)
             next_segment ==
                 FAdd(Last(arc_segments),
                      FMul(weights[i - 1], CoordDiff(images, i - 1)))
         IN  Append(arc_segments, next_segment)

\* arc_segments when the loop over the images is done
SummedSegments(images, energies) ==
    ArcSegmentsTo(images, weight_function(MeanEnergies(energies)),
                  Len(images))

\* arc_segments as handed to splprep
ArcSegments(images, energies) ==
    LET arc_segments == SummedSegments(images, energies)
    IN  VecDiv(arc_segments, FMax(arc_segments))

\* the parameters splprep gives the points when u is not given: the running
\* sum of the distances between the points, not yet divided by the total
RECURSIVE ChordLengthsTo(_, _)
ChordLengthsTo(images, i) ==
    IF i = 1 THEN <<Zero>>
    ELSE LET v == ChordLengthsTo(images, i - 1)
         IN  Append(v, FAdd(Last(v), CoordDiff(images, i - 1)))

\* the uniform parameters 0, 1/(m-1), ..., 1 in the place of the default
DefaultParams_Uniform(images) == Linspace(Len(images))

DefaultParams(images) ==
    LET v == ChordLengthsTo(images, Len(images))
    IN  VecDiv(v, Last(v))

\* u[1] < u[2] < ... as the fit tests it: a nan passes every comparison
StrictlyIncreasing(u) ==
    \A i \in 1..(Len(u) - 1) : ~FLeq(u[i + 1], u[i])

\* a fit that accepts as many points as its degree
TooFewPoints_Strict(m, k) == m < k

\* the number of points the fit of degree k rejects
TooFewPoints(m, k) == m <= k

\* splprep(x, u=u, s=0) with the default degree k = 3; u = <<>> stands for
\* u=None.  x holds one row per coordinate.  The result is the error
\* raised, or the curve as the points and their parameters.
Splprep(x, u) ==
    LET idim == Len(x)
        m == Len(x[1])
        images == Transpose(x)
        total == Last(ChordLengthsTo(images, m))
    IN  IF ~(0 < idim /\ idim < 11) THEN [err |-> "TypeError"]
        ELSE IF TooFewPoints(m, 3) THEN [err |-> "TypeError"]
        ELSE IF u = <<>> /\ FLeq(total, Zero) THEN [err |-> "ValueError"]
        ELSE LET params == IF u = <<>> THEN DefaultParams(images) ELSE u
             IN  IF ~StrictlyIncreasing(params)
                 THEN [err |-> "ValueError"]
                 ELSE [err |-> "none", u |-> params, x |-> x]

\* the parabola through the first three points of one coordinate, at t
Parabola(u, x, t) ==
    LET term(a, b, c) ==
            FDiv(FMul(x[a], FMul(FSub(t, u[b]), FSub(t, u[c]))),
                 FMul(FSub(u[a], u[b]), FSub(u[a], u[c])))
    IN  FAdd(term(1, 2, 3), FAdd(term(2, 1, 3), term(3, 1, 2)))

\* (t - u[1]) (t - u[2]) (t - u[3])
Omega(u, t) == FMul(FSub(t, u[1]), FMul(FSub(t, u[2]), FSub(t, u[3])))

\* (t - knot)^3 right of the knot, zero left of it
TruncCube(t, knot) == IF FLess(knot, t) THEN Cube(FSub(t, knot)) ELSE Zero

\* sum over the knots u[3] .. u[j] of coef[.][part] (t - knot)^3
RECURSIVE KnotSum(_, _, _, _, _)
KnotSum(coef, part, u, t, j) ==
    IF j < 3 THEN Zero
    ELSE FAdd(FMul(coef[j - 2][part], TruncCube(t, u[j])),
              KnotSum(coef, part, u, t, j - 1))

\* The interpolating cubic spline through the points (u[i], x[i]) with the
\* knots u[3] .. u[m-2] is
\*     Parabola + a Omega + sum of c[j] (t - u[j])^3.
\* KnotCoefs gives c[3] .. c[j], each as <<alpha, beta>> for
\* alpha + beta a, from the interpolation at u[4] .. u[j+1].
RECURSIVE KnotCoefs(_, _, _)
KnotCoefs(u, x, j) ==
    IF j < 3 THEN <<>>
    ELSE LET coef == KnotCoefs(u, x, j - 1)
             t == u[j + 1]
             scale == Cube(FSub(t, u[j]))
             alpha == FDiv(FSub(FSub(x[j + 1], Parabola(u, x, t)),
                                KnotSum(coef, 1, u, t, j - 1)), scale)
             beta == FDiv(FSub(FNeg(Omega(u, t)),
                               KnotSum(coef, 2, u, t, j - 1)), scale)
         IN  Append(coef, <<alpha, beta>>)

\* the value at t of the spline through the points (u[i], x[i])
SplineValue(u, x, t) ==
    LET m == Len(u)
        coef == KnotCoefs(u, x, m - 2)
        a == FDiv(FSub(FSub(x[m], Parabola(u, x, u[m])),
                       KnotSum(coef, 1, u, u[m], m - 2)),
                  FAdd(Omega(u, u[m]), KnotSum(coef, 2, u, u[m], m - 2)))
    IN  FAdd(Parabola(u, x, t),
             FAdd(FMul(a, Omega(u, t)),
                  FAdd(KnotSum(coef, 1, u, t, m - 2),
                       FMul(a, KnotSum(coef, 2, u, t, m - 2)))))

\* splev(mesh, tck): one row per coordinate
Splev(mesh, tck) ==
    [d \in 1..Len(tck.x) |->
        [i \in 1..Len(mesh) |-> SplineValue(tck.u, tck.x[d], mesh[i])]]

NewCoords_NoTranspose(new_points) == Flatten(new_points)

\* new_points.transpose().flatten()
NewCoords(new_points) == Flatten(Transpose(new_points))

\* the coordinates are nan or fractions of few digits, which keeps the exact
\* arithmetic of the fit within 32 bits
ZtsSmall(cs) ==
    \A k \in 1..Len(cs) :
        cs[k][2] <= MaxDenominator /\ IAbs(cs[k][1]) <= 64 * MaxDenominator

\* the square roots reparametrize takes are roots of rational squares
ZtsExact(cs, energies, param) ==
    LET images == Reshape(cs, CoordsLength)
        lengths == \A i \in 1..(Len(images) - 1) :
                       ExactSqrt(NormSq(VecSub(images[i + 1], images[i])))
        mean_energies == MeanEnergies(energies)
        absolute == [i \in DOMAIN mean_energies |-> FAbs(mean_energies[i])]
    IN  /\ param \in {"equal", "energy"} => lengths
        /\ (param = "energy" /\ NoEnergy \notin Range(energies)) =>
               \A i \in DOMAIN absolute :
                   ExactSqrt(FDiv(absolute[i], FMax(absolute)))

\* SimpleZTS.__init__
ZtsConstruct ==
    /\ zts_pc = "new"
    /\ \E param \in ZtsParams : zts_param' = param
    /\ zts_pc' = "ready"
    /\ UNCHANGED <<zts_coords, zts_energies, zts_calls, zts_info>>
    /\ UNCHANGED <<optvars, clipvars, calcvars, intvars, runvars>>

\* SimpleZTS.reparametrize: the error it raises, or "none" with the fitted
\* curve
reparametrize(cs, energies, param) ==
    LET reshaped == Reshape(cs, CoordsLength)
        transp_coords == Transpose(reshaped)
    IN  IF param = "energy"
        THEN IF NoEnergy \in Range(energies) THEN [err |-> "TypeError"]
             ELSE Splprep(transp_coords, ArcSegments(reshaped, energies))
        ELSE IF param = "equal" THEN Splprep(transp_coords, <<>>)
        ELSE [err |-> "UnboundLocalError"]

\* A call of reparametrize.  A parameter sequence of nans passes the tests
\* of the fit, which is then free to give a curve of nans (garbage) or not
\* to return at all (crash).
Reparametrize ==
    /\ zts_pc = "ready"
    /\ zts_calls < MaxReparam
    /\ ZtsSmall(zts_coords)
    /\ ZtsExact(zts_coords, zts_energies, zts_param)
    /\ \E nonfinite \in {"garbage", "crash"} :
        LET tck == reparametrize(zts_coords, zts_energies, zts_param)
            num == Len(zts_coords) \div CoordsLength
            images == Reshape(zts_coords, CoordsLength)
            with_energies == /\ zts_param = "energy"
                             /\ NoEnergy \notin Range(zts_energies)
            crashed == /\ tck.err = "none"
                       /\ NaN \in Range(tck.u)
                       /\ nonfinite = "crash"
        IN  /\ zts_coords' =
                   IF tck.err = "none" /\ ~crashed
                   THEN NewCoords(Splev(Linspace(num), tck))
                   ELSE zts_coords
            /\ zts_pc' = IF crashed THEN "crashed" ELSE "ready"
            /\ zts_info' = [status |-> IF crashed THEN "crashed"
                                       ELSE IF tck.err = "none" THEN "ok"
                                       ELSE tck.err,
                            u |-> IF tck.err = "none" THEN tck.u ELSE <<>>,
                            before |-> zts_coords,
                            summed |->
                                IF with_energies
                                THEN SummedSegments(images, zts_energies)
                                ELSE <<>>,
                            arc_segments |->
                                IF with_energies
                                THEN ArcSegments(images, zts_energies)
                                ELSE <<>>]
    /\ zts_calls' = zts_calls + 1
    /\ UNCHANGED <<zts_param, zts_energies>>
    /\ UNCHANGED <<optvars, clipvars, calcvars, intvars, runvars>>

\* ------------------------------------------------------------------------
\* Primitive: the base class of the internal coordinates
\* ------------------------------------------------------------------------
\* u.dot(v)
Dot(u, v) == DotFrom(u, v, 1)

\* a test without the absolute value
parallel_NoAbs(u, v, thresh) ==
    FLess(FSub(One, FDiv(Dot(u, v), FMul(Norm(u), Norm(v)))), thresh)

\* Primitive.parallel
parallel(u, v, thresh) ==
    LET dot == FDiv(Dot(u, v), FMul(Norm(u), Norm(v)))
    IN  FLess(FSub(One, FAbs(dot)), thresh)

\* dot = u.dot(v) / (np.linalg.norm(u) * np.linalg.norm(v))
Cosine(u, v) == FDiv(Dot(u, v), FMul(Norm(u), Norm(v)))

\* A call of Primitive.parallel, with thresh or with its default
Parallel ==
    /\ \E u \in ParVectors, v \in ParVectors, thresh \in ThreshVals :
           par_call' = [op |-> "parallel", u |-> u, v |-> v,
                        thresh |-> thresh, dot |-> Cosine(u, v),
                        result |-> parallel(u, v, thresh)]
    /\ UNCHANGED <<rho_call, primvars>>
    /\ UNCHANGED <<optvars, clipvars, calcvars, ztsvars, runvars>>

\* COVALENT_RADII of elem_data, keyed by the symbol in lower case
CR == ("h" :> <<31, 100>>) @@ ("o" :> <<33, 50>>)

\* str.lower() of an atom symbol
Lower(symbol) ==
    IF symbol = "H" THEN "h" ELSE IF symbol = "O" THEN "o" ELSE symbol

\* seq[i] of Python is defined for -len(seq) <= i < len(seq)
PyInRange(seq, i) == -Len(seq) <= i /\ i < Len(seq)

\* seq[i] of Python: a negative i counts from the end
PyGet(seq, i) == IF i >= 0 THEN seq[i + 1] ELSE seq[Len(seq) + i + 1]

\* math.exp(x), kept as its argument
Exp(x) == [exp |-> x]

\* exp(a) < exp(b)
ExpLess(a, b) == FLess(a.exp, b.exp)

\* a rho that leaves out the sign of the exponent
rho_Growing(atoms, coords3d, indices) ==
    LET i == indices[1]
        j == indices[2]
    IN  IF ~PyInRange(coords3d, i) \/ ~PyInRange(coords3d, j)
        THEN [err |-> "IndexError"]
        ELSE [err |-> "none",
              value |-> Exp(FSub(FDiv(
                  Norm(VecSub(PyGet(coords3d, i), PyGet(coords3d, j))),
                  FAdd(CR[Lower(PyGet(atoms, i))],
                       CR[Lower(PyGet(atoms, j))])), One))]

\* Primitive.rho: the error raised, or the value returned
rho(atoms, coords3d, indices) ==
    LET i == indices[1]
        j == indices[2]
    IN  IF ~PyInRange(coords3d, i) \/ ~PyInRange(coords3d, j)
        THEN [err |-> "IndexError"]
        ELSE IF ~PyInRange(atoms, i) \/ ~PyInRange(atoms, j)
        THEN [err |-> "IndexError"]
        ELSE IF {Lower(PyGet(atoms, i)), Lower(PyGet(atoms, j))}
                    \subseteq DOMAIN CR
        THEN LET distance ==
                     Norm(VecSub(PyGet(coords3d, i), PyGet(coords3d, j)))
                 cov_rad_sum == FAdd(CR[Lower(PyGet(atoms, i))],
                                     CR[Lower(PyGet(atoms, j))])
             IN  [err |-> "none",
                  value |-> Exp(FNeg(FSub(FDiv(distance, cov_rad_sum),
                                          One)))]
        ELSE [err |-> "KeyError"]

\* A call of Primitive.rho on a molecule, with any two integers that are
\* at most one beyond the atoms as indices
Rho ==
    /\ \E atoms \in RhoAtoms, coords3d \in RhoCoords3d :
       \E i, j \in (-(Len(atoms) + 1))..Len(atoms) :
           rho_call' = [op |-> "rho", atoms |-> atoms, coords3d |-> coords3d,
                        indices |-> <<i, j>>,
                        result |-> rho(atoms, coords3d, <<i, j>>)]
    /\ UNCHANGED <<par_call, primvars>>
    /\ UNCHANGED <<optvars, clipvars, calcvars, ztsvars, runvars>>

\* a constructor that keeps the caller's list
CopyList_Alias(heap, ref) == [lists |-> heap, ref |-> ref]

\* list(indices): a new list object with the content of the list ref
CopyList(heap, ref) ==
    [lists |-> Append(heap, heap[ref]), ref |-> Len(heap) + 1]

\* Primitive.__init__ on the caller's list, lists[1]
PrimConstruct ==
    /\ prim_pc = "new"
    /\ \E periodic \in BOOLEAN, kwargs \in CalcKwargsArgs :
        LET copy == CopyList(lists, 1)
        IN  /\ lists' = copy.lists
            /\ prim_indices' = copy.ref
            /\ prim_periodic' = periodic
            /\ prim_calc_kwargs' =
                   IF kwargs.given THEN kwargs.value ELSE <<>>
            /\ prim_made' = [op |-> "init", indices |-> lists[1],
                             periodic |-> periodic,
                             calc_kwargs |-> kwargs]
    /\ prim_pc' = "ready"
    /\ UNCHANGED <<prim_call, prim_changes>>
    /\ UNCHANGED <<par_call, rho_call>>
    /\ UNCHANGED <<optvars, clipvars, calcvars, ztsvars, runvars>>

\* getattr(self, key)
Getattr(key) == IF key = "periodic" THEN prim_periodic ELSE "AttributeError"

\* {key: getattr(self, key) for key in self.calc_kwargs}
CollectKwargs == [key \in Range(prim_calc_kwargs) |-> Getattr(key)]

\* the last call had an argument of its own
LastGiven == prim_call.op # "none" /\ prim_call.arg.given

\* Primitive.calculate: the abstract _calculate gets the stored indices, or
\* the ones given, and the collected attributes
Calculate ==
    /\ prim_pc = "ready"
    /\ \E indices \in IndicesArgs, gradient \in BOOLEAN :
           prim_call' = [op |-> "calculate", arg |-> indices,
                         indices |-> IF indices.given THEN indices.value
                                     ELSE lists[prim_indices],
                         gradient |-> gradient,
                         kwargs |-> CollectKwargs,
                         prev_given |-> LastGiven]
    /\ UNCHANGED <<prim_pc, lists, prim_indices, prim_periodic,
                   prim_calc_kwargs, prim_made, prim_changes>>
    /\ UNCHANGED <<par_call, rho_call>>
    /\ UNCHANGED <<optvars, clipvars, calcvars, ztsvars, runvars>>

\* Primitive.jacobian
Jacobian ==
    /\ prim_pc = "ready"
    /\ \E indices \in IndicesArgs :
           prim_call' = [op |-> "jacobian", arg |-> indices,
                         indices |-> IF indices.given THEN indices.value
                                     ELSE lists[prim_indices],
                         kwargs |-> CollectKwargs,
                         prev_given |-> LastGiven]
    /\ UNCHANGED <<prim_pc, lists, prim_indices, prim_periodic,
                   prim_calc_kwargs, prim_made, prim_changes>>
    /\ UNCHANGED <<par_call, rho_call>>
    /\ UNCHANGED <<optvars, clipvars, calcvars, ztsvars, runvars>>

\* Primitive.weight: the abstract _weight gets f_damping, or its default
Weight ==
    /\ prim_pc = "ready"
    /\ \E f_damping \in DampingArgs :
           prim_call' = [op |-> "weight", arg |-> f_damping,
                         f_damping |-> IF f_damping.given
                                       THEN f_damping.value
                                       ELSE DefaultDamping,
                         prev_given |-> LastGiven]
    /\ UNCHANGED <<prim_pc, lists, prim_indices, prim_periodic,
                   prim_calc_kwargs, prim_made, prim_changes>>
    /\ UNCHANGED <<par_call, rho_call>>
    /\ UNCHANGED <<optvars, clipvars, calcvars, ztsvars, runvars>>

\* The caller of the constructor appends to the list it had handed over
ChangeArgument ==
    /\ prim_pc = "ready"
    /\ prim_changes < MaxChanges
    /\ lists' = [lists EXCEPT ![1] = Append(@, 3)]
    /\ prim_changes' = prim_changes + 1
    /\ UNCHANGED <<prim_pc, prim_indices, prim_periodic, prim_calc_kwargs,
                   prim_made, prim_call>>
    /\ UNCHANGED <<par_call, rho_call>>
    /\ UNCHANGED <<optvars, clipvars, calcvars, ztsvars, runvars>>

\* ------------------------------------------------------------------------
\* run.py: run_calculations
\* ------------------------------------------------------------------------
\* the parts of the model that are not run.py's
othervars == <<optvars, clipvars, calcvars, ztsvars, intvars>>

\* if i < (len(geoms)-2)
HandsOver(i, n) == i < n - 2

\* the first loop of run_calculations: every geometry gets the calculator
\* calc_getter(i), here calculator i, which holds no checkpoint data yet
RcSetCalculators ==
    /\ rc_pc = "start"
    /\ rc_chk' = [j \in 1..rc_geoms |-> NoChk]
    /\ rc_log' = [j \in 1..rc_geoms |-> <<"set_calculator", j - 1>>]
    /\ rc_pc' = IF rc_scheduler THEN "map" ELSE "run_calculation"
    /\ UNCHANGED <<rc_scheduler, rc_chkfiles, rc_geoms, rc_i>>
    /\ UNCHANGED <<othervars, mainvars, preoptvars, closvars, lcvars>>

\* client.map(par_calc, geoms): the scheduler runs the calculation of a
\* geometry that was not run yet; client.gather returns after the last one
RcParCalc ==
    /\ rc_pc = "map"
    /\ \E j \in 0..(rc_geoms - 1) :
           /\ <<"run_calculation", j>> \notin Range(rc_log)
           /\ rc_log' = Append(rc_log, <<"run_calculation", j>>)
           /\ rc_chk' = [rc_chk EXCEPT ![j + 1] = j]
           /\ rc_pc' = IF \A k \in (0..(rc_geoms - 1)) \ {j} :
                               <<"run_calculation", k>> \in Range(rc_log)
                        THEN "done" ELSE "map"
    /\ UNCHANGED <<rc_scheduler, rc_chkfiles, rc_geoms, rc_i>>
    /\ UNCHANGED <<othervars, mainvars, preoptvars, closvars, lcvars>>

\* geom.calculator.run_calculation(geom.atoms, geom.coords) of the
\* sequential loop; the calculator then holds checkpoint data of its own
RcRunCalculation ==
    /\ rc_pc = "run_calculation"
    /\ rc_log' = Append(rc_log, <<"run_calculation", rc_i>>)
    /\ rc_chk' = [rc_chk EXCEPT ![rc_i + 1] = rc_i]
    /\ rc_pc' = "chkfiles"
    /\ UNCHANGED <<rc_scheduler, rc_chkfiles, rc_geoms, rc_i>>
    /\ UNCHANGED <<othervars, mainvars, preoptvars, closvars, lcvars>>

\* the rest of the loop body: the checkpoint data goes to the calculator of
\* the next geometry, or the AttributeError of a calculator without
\* get_chkfiles is caught; then the loop goes on
RcChkfiles ==
    /\ rc_pc = "chkfiles"
    /\ IF HandsOver(rc_i, rc_geoms)
       THEN IF rc_chkfiles
            THEN /\ rc_chk' = [rc_chk EXCEPT ![rc_i + 2] = rc_chk[rc_i + 1]]
                 /\ rc_log' = Append(rc_log, <<"set_chkfiles", rc_i, rc_i + 1>>)
            ELSE /\ rc_log' = Append(rc_log, <<"AttributeError", rc_i>>)
                 /\ UNCHANGED rc_chk
       ELSE UNCHANGED <<rc_chk, rc_log>>
    /\ rc_i' = rc_i + 1
    /\ rc_pc' = IF rc_i + 1 = rc_geoms THEN "done" ELSE "run_calculation"
    /\ UNCHANGED <<rc_scheduler, rc_chkfiles, rc_geoms>>
    /\ UNCHANGED <<othervars, mainvars, preoptvars, closvars, lcvars>>

\* ------------------------------------------------------------------------
\* run.py: main
\* ------------------------------------------------------------------------
\* bool(section): None and the empty dict are false
Truthy(section) == section # NoSection /\ section # {}

\* if run_dict[key]: run_dict[key].pop("type")
PopType(section) == IF Truthy(section) THEN section \ {"type"} ELSE section

\* any([run_dict[key] is not None
\*      for key in ("opt", "tsopt", "irc", "endopt")])
AnyStage(rd) ==
    \E key \in {"opt", "tsopt", "irc", "endopt"} : rd[key] # NoSection

\* main up to the stages: the types are popped off the sections, the
\* calculator getter is made, the end points are pre-optimized, the
\* geometries are read, a dry run returns, and the chain of states is made
MainSetup ==
    /\ main_pc = "start"
    /\ LET rd1 == [key \in Sections |->
                      IF key = "cos" /\ Truthy(run_dict[key])
                      THEN PopType(run_dict[key]) \cup {"scheduler"}
                      ELSE PopType(run_dict[key])]
       IN  /\ run_dict' = rd1
           /\ main_log' = (IF ~dryrun /\ Truthy(rd1["preopt"])
                           THEN <<"preopt">> ELSE <<>>) \o
                          (IF dryrun THEN <<"dry_run">> ELSE <<>>)
           /\ geom_is_cos' = (~dryrun /\ Truthy(rd1["cos"]))
           /\ main_pc' = IF dryrun THEN "returned"
                         ELSE IF Truthy(rd1["stocastic"]) THEN "stocastic"
                         ELSE IF AnyStage(rd1) THEN "opt"
                         ELSE "calculations"
    /\ UNCHANGED <<main_given, dryrun, ran_irc>>
    /\ UNCHANGED <<othervars, rcvars, preoptvars, closvars, lcvars>>

\* if run_dict["stocastic"]: run_stocastic
MainStocastic ==
    /\ main_pc = "stocastic"
    /\ main_log' = Append(main_log, "stocastic")
    /\ main_pc' = "returned"
    /\ UNCHANGED <<run_dict, main_given, dryrun, geom_is_cos, ran_irc>>
    /\ UNCHANGED <<othervars, rcvars, preoptvars, closvars, lcvars>>

\* the OPT block: run_opt gives back the chain of states, or a single
\* geometry that is copied
MainOpt ==
    /\ main_pc = "opt"
    /\ main_log' = IF Truthy(run_dict["opt"]) THEN Append(main_log, "opt")
                   ELSE main_log
    /\ main_pc' = "tsopt"
    /\ UNCHANGED <<run_dict, main_given, dryrun, geom_is_cos, ran_irc>>
    /\ UNCHANGED <<othervars, rcvars, preoptvars, closvars, lcvars>>

\* the TSOPT block: run_tsopt_from_cos on a chain of states, run_opt on a
\* single geometry; geom is then the copy of the single ts_geom
MainTsopt ==
    /\ main_pc = "tsopt"
    /\ IF Truthy(run_dict["tsopt"])
       THEN /\ main_log' = Append(main_log, "tsopt")
            /\ geom_is_cos' = FALSE
       ELSE UNCHANGED <<main_log, geom_is_cos>>
    /\ main_pc' = "irc"
    /\ UNCHANGED <<run_dict, main_given, dryrun, ran_irc>>
    /\ UNCHANGED <<othervars, rcvars, preoptvars, closvars, lcvars>>

\* the IRC block
MainIrc ==
    /\ main_pc = "irc"
    /\ IF Truthy(run_dict["irc"])
       THEN /\ main_log' = Append(main_log, "irc")
            /\ ran_irc' = TRUE
       ELSE UNCHANGED <<main_log, ran_irc>>
    /\ main_pc' = "endopt"
    /\ UNCHANGED <<run_dict, main_given, dryrun, geom_is_cos>>
    /\ UNCHANGED <<othervars, rcvars, preoptvars, closvars, lcvars>>

\* the ENDOPT block, and the return of main
MainEndopt ==
    /\ main_pc = "endopt"
    /\ main_log' = IF ran_irc /\ Truthy(run_dict["endopt"])
                   THEN Append(main_log, "endopt") ELSE main_log
    /\ main_pc' = "returned"
    /\ UNCHANGED <<run_dict, main_given, dryrun, geom_is_cos, ran_irc>>
    /\ UNCHANGED <<othervars, rcvars, preoptvars, closvars, lcvars>>

\* the fallback when no specific job type was specified: run_calculations
MainCalculations ==
    /\ main_pc = "calculations"
    /\ main_log' = Append(main_log, "calculations")
    /\ main_pc' = "returned"
    /\ UNCHANGED <<run_dict, main_given, dryrun, geom_is_cos, ran_irc>>
    /\ UNCHANGED <<othervars, rcvars, preoptvars, closvars, lcvars>>

\* ------------------------------------------------------------------------
\* run.py: run_preopt
\* ------------------------------------------------------------------------
\* dict.pop(key, default): the value
PopValue(dict, key, default) ==
    IF key \in DOMAIN dict THEN dict[key] ELSE default

\* dict.pop(key, default): the dict afterwards
PopRest(dict, key) == [k \in (DOMAIN dict) \ {key} |-> dict[k]]

\* to_preopt
ToPreopt(preopt) ==
    LET first == <<0, "first">>
        last == <<-1, "last">>
    IN  IF preopt = "both" THEN <<first, last>>
        ELSE IF preopt = "first" THEN <<first>>
        ELSE <<last>>

\* list.insert(i, x) for i >= 0: beyond the end it appends
PyInsert(list, i, x) ==
    IF i >= Len(list) THEN Append(list, x)
    ELSE [k \in 1..(Len(list) + 1) |->
             IF k <= i THEN list[k] ELSE IF k = i + 1 THEN x ELSE list[k - 1]]

\* the files after fn was written with content
WriteFile(fs, fn, content) ==
    [name \in (DOMAIN fs) \cup {fn} |->
        IF name = fn THEN content ELSE fs[name]]

\* shutil.move(src, dst)
MoveFile(fs, from, to) ==
    [name \in ((DOMAIN fs) \ {from}) \cup {to} |->
        IF name = to THEN fs[from] ELSE fs[name]]

\* opt.final_fn: the file the optimizer wrote its final geometry to
FinalFn(prefix) == prefix \o <<"_final_geometry.xyz">>

\* f"{str_}_pre"; a file name is kept as the sequence of its parts
Prefix(str_) == <<str_, "_pre">>

\* f"{str_}_preopt.xyz"
OptFn(str_) == <<str_, "_preopt.xyz">>

\* the place of geoms[ind] in the list
PyPlace(list, ind) == IF ind >= 0 THEN ind + 1 ELSE Len(list) + ind + 1

\* a list that gets the intermediate images at its end
InsertMiddle_AtEnd(out, middle_fn) == Append(out, middle_fn)

\* out_xyz.insert(1, middle_fn)
InsertMiddle(out, middle_fn) == PyInsert(out, 1, middle_fn)

\* run_preopt up to its loop: the options are popped off preopt_kwargs, the
\* geometries are read and the intermediate ones are written to a file
PreoptStart ==
    /\ pre_pc = "start"
    /\ pre_strict' = PopValue(preopt_kwargs, "strict", FALSE)
    /\ pre_preopt' = PopValue(preopt_kwargs, "preopt", "both")
    /\ preopt_kwargs' =
           PopRest(PopRest(PopRest(preopt_kwargs, "strict"), "coord_type"),
                   "preopt")
    /\ pre_todo' = ToPreopt(pre_preopt')
    /\ LET middle_geoms == SubSeq(pre_geoms, 2, Len(pre_geoms) - 1)
       IN  pre_files' = IF Len(middle_geoms) > 0
                        THEN WriteFile(pre_files, <<"middle_for_preopt.trj">>,
                                       middle_geoms)
                        ELSE pre_files
    /\ out_xyz' = <<>>
    /\ pre_pc' = "loop"
    /\ UNCHANGED pre_geoms
    /\ UNCHANGED <<othervars, rcvars, mainvars, closvars, lcvars>>

\* One round of the loop over to_preopt[preopt].  run_opt optimizes the
\* geometry in place and the optimizer leaves its final geometry in
\* opt.final_fn; is_converged and stopped are what the optimizer reports.
PreoptOptimize ==
    /\ pre_pc = "loop"
    /\ Len(pre_todo) > 0
    /\ \E is_converged \in BOOLEAN, stopped \in BOOLEAN :
        LET ind == pre_todo[1][1]
            str_ == pre_todo[1][2]
            place == PyPlace(pre_geoms, ind)
            final == Structure(pre_geoms[place].geom, "optimized")
            written == WriteFile(pre_files, FinalFn(Prefix(str_)), <<final>>)
        IN  /\ pre_geoms' = [pre_geoms EXCEPT ![place] = final]
            /\ IF pre_strict /\ ~stopped /\ ~is_converged
               THEN /\ pre_pc' = "exited"
                    /\ pre_files' = written
                    /\ UNCHANGED <<out_xyz, pre_todo>>
               ELSE /\ pre_files' = MoveFile(written, FinalFn(Prefix(str_)),
                                             OptFn(str_))
                    /\ out_xyz' = Append(out_xyz, OptFn(str_))
                    /\ pre_todo' = Tail(pre_todo)
                    /\ pre_pc' = IF Len(pre_todo) = 1 THEN "finish"
                                 ELSE "loop"
    /\ UNCHANGED <<preopt_kwargs, pre_preopt, pre_strict>>
    /\ UNCHANGED <<othervars, rcvars, mainvars, closvars, lcvars>>

\* run_preopt after the loop: the end point that was not optimized is
\* written as it is, and the file of the intermediate images is put in
PreoptFinish ==
    /\ pre_pc = "finish"
    /\ LET first_fn == <<"first_not_preopt.xyz">>
           last_fn == <<"last_not_preopt.xyz">>
           has_middle == <<"middle_for_preopt.trj">> \in DOMAIN pre_files
           out1 == IF pre_preopt = "last"
                   THEN PyInsert(out_xyz, 0, first_fn) ELSE out_xyz
           out2 == IF has_middle
                   THEN InsertMiddle(out1, <<"middle_for_preopt.trj">>)
                   ELSE out1
           out3 == IF pre_preopt = "first" THEN Append(out2, last_fn)
                   ELSE out2
           files1 == IF pre_preopt = "last"
                     THEN WriteFile(pre_files, first_fn, <<pre_geoms[1]>>)
                     ELSE pre_files
           files2 == IF pre_preopt = "first"
                     THEN WriteFile(files1, last_fn, <<Last(pre_geoms)>>)
                     ELSE files1
       IN  /\ out_xyz' = out3
           /\ pre_files' = files2
    /\ pre_pc' = "returned"
    /\ UNCHANGED <<preopt_kwargs, pre_preopt, pre_strict, pre_geoms, pre_todo>>
    /\ UNCHANGED <<othervars, rcvars, mainvars, closvars, lcvars>>

\* ------------------------------------------------------------------------
\* run.py: get_calc_closure
\* ------------------------------------------------------------------------
\* value.replace("$IMAGE", new) on the parts of a string
RECURSIVE Replace(_, _)
Replace(parts, new) ==
    IF parts = <<>> THEN <<>>
    ELSE (IF Head(parts) = "$IMAGE" THEN new ELSE <<Head(parts)>>) \o
         Replace(Tail(parts), new)

\* the loop over kwargs_copy.items(): the strings that hold the pattern are
\* replaced, every other value is left
Expand(kwargs_copy, index) ==
    [key \in DOMAIN kwargs_copy |->
        LET value == kwargs_copy[key]
        IN  IF value.type # "str" \/ "$IMAGE" \notin Range(value.value)
            THEN value
            ELSE Str(Replace(value.value, Format03d(index)))]

\* a getter that expands the dict it was given
Kept_InPlace(kw, kwargs_copy) == kwargs_copy

\* calc_kwargs after a call of the getter: kwargs_copy is a deep copy, so
\* what is assigned to its keys does not reach calc_kwargs
Kept(kw, kwargs_copy) == kw

\* get_calc_closure(base_name, calc_key, calc_kwargs)
GetCalcClosure ==
    /\ clos_pc = "new"
    /\ clos_index' = 0
    /\ clos_pc' = "ready"
    /\ UNCHANGED <<clos_kwargs, clos_given, clos_calcs>>
    /\ UNCHANGED <<othervars, rcvars, mainvars, preoptvars, lcvars>>

\* a call of calc_getter
CalcGetter ==
    /\ clos_pc = "ready"
    /\ clos_index < MaxGetterCalls
    /\ LET kwargs_copy == Expand(clos_kwargs, clos_index)
       IN  /\ clos_calcs' = Append(clos_calcs,
                                   [base_name |-> "image",
                                    calc_number |-> clos_index,
                                    kwargs |-> kwargs_copy])
           /\ clos_kwargs' = Kept(clos_kwargs, kwargs_copy)
    /\ clos_index' = clos_index + 1
    /\ UNCHANGED <<clos_pc, clos_given>>
    /\ UNCHANGED <<othervars, rcvars, mainvars, preoptvars, lcvars>>

\* ------------------------------------------------------------------------
\* run.py: get_last_calc_cycle
\* ------------------------------------------------------------------------
\* the place of a digit among the characters
DigitValue(ch) == CHOOSE d \in 0..9 : Digit(d) = ch

\* a < b of two strings of digits, as Python compares strings
RECURSIVE StrLess(_, _)
StrLess(a, b) ==
    IF b = <<>> THEN FALSE
    ELSE IF a = <<>> THEN TRUE
    ELSE IF Head(a) # Head(b) THEN DigitValue(Head(a)) < DigitValue(Head(b))
    ELSE StrLess(Tail(a), Tail(b))

\* int(s) of a string of digits
RECURSIVE ParseInt(_)
ParseInt(digits) ==
    IF digits = <<>> THEN 0
    ELSE 10 * ParseInt(SubSeq(digits, 1, Len(digits) - 1))
             + DigitValue(Last(digits))

\* keyfunc: the group of the regular expression, the cycle of a log
keyfunc(path) == path.cycle

\* the keys of the groups that itertools.groupby makes of the sorted logs:
\* the distinct keys in the order of the strings
SortedKeys(keys) ==
    LET RECURSIVE Sorted(_)
        Sorted(rest) ==
            IF rest = {} THEN <<>>
            ELSE LET least == CHOOSE k \in rest :
                                  \A other \in rest : ~StrLess(other, k)
                 IN  <<least>> \o Sorted(rest \ {least})
    IN  Sorted(keys)

\* len(list(group))
CycleLength(logs, key) == Cardinality({path \in logs : keyfunc(path) = key})

\* the loop over the groups from group i on
RECURSIVE ScanGroups(_, _, _, _, _)
ScanGroups(logs, groups, i, last_length, last_calc_cycle) ==
    IF i > Len(groups) THEN last_calc_cycle
    ELSE LET cycle_length == CycleLength(logs, groups[i])
         IN  IF cycle_length < last_length THEN last_calc_cycle
             ELSE ScanGroups(logs, groups, i + 1, cycle_length,
                             ParseInt(groups[i]))

\* get_last_calc_cycle on the logs of the working directory
get_last_calc_cycle(logs) ==
    ScanGroups(logs, SortedKeys({keyfunc(path) : path \in logs}), 1, 0, 0)

\* a call of get_last_calc_cycle
GetLastCalcCycle ==
    /\ lc_pc = "start"
    /\ lc_result' = get_last_calc_cycle(lc_logs)
    /\ lc_pc' = "returned"
    /\ UNCHANGED <<lc_counts, lc_logs>>
    /\ UNCHANGED <<othervars, rcvars, mainvars, preoptvars, closvars>>

\* ------------------------------------------------------------------------
\* Specifications
\* ------------------------------------------------------------------------
Init == OptInit /\ ClipIdle /\ CalcIdle /\ GeomIdle

Next == Construct \/ PrepareOpt \/ RunCycle

\* a run of the string optimizer
Spec == Init /\ [][Next]_vars

ClipSpecInit == OptIdle /\ ClipInit /\ CalcIdle /\ GeomIdle

ClipSpecNext == RestrictStep

\* restrict_step_components on its own
ClipSpec == ClipSpecInit /\ [][ClipSpecNext]_vars

CalcSpecInit == OptIdle /\ ClipIdle /\ CalcInit /\ GeomIdle

CalcSpecNext == SetCalculator \/ RunCalculator

\* run_opt attaches the calculators, which are then run
CalcSpec == CalcSpecInit /\ [][CalcSpecNext]_vars

ZtsSpecInit ==
    OptIdle /\ ClipIdle /\ CalcIdle /\ ZtsInit /\ IntIdle /\ RunIdle

ZtsSpecNext == ZtsConstruct \/ Reparametrize

\* a zero temperature string is constructed and reparametrized
ZtsSpec == ZtsSpecInit /\ [][ZtsSpecNext]_vars

StaticInit == OptIdle /\ ClipIdle /\ CalcIdle /\ GeomIdle

ParSpecNext == Parallel

\* calls of Primitive.parallel
ParSpec == StaticInit /\ [][ParSpecNext]_vars

RhoSpecNext == Rho

\* calls of Primitive.rho
RhoSpec == StaticInit /\ [][RhoSpecNext]_vars

PrimSpecInit ==
    /\ OptIdle /\ ClipIdle /\ CalcIdle /\ ZtsIdle /\ IntInit /\ PrimInit
    /\ RunIdle

PrimSpecNext ==
    PrimConstruct \/ Calculate \/ Jacobian \/ Weight \/ ChangeArgument

\* a Primitive is constructed and used
PrimSpec == PrimSpecInit /\ [][PrimSpecNext]_vars

RcSpecInit ==
    /\ OptIdle /\ ClipIdle /\ CalcIdle /\ ZtsIdle /\ IntIdle
    /\ RcInit /\ MainIdle /\ PreoptIdle /\ ClosIdle /\ LcIdle

RcSpecNext ==
    RcSetCalculators \/ RcParCalc \/ RcRunCalculation \/ RcChkfiles

\* run_calculations on its geometries
RcSpec == RcSpecInit /\ [][RcSpecNext]_vars

MainSpecInit ==
    /\ OptIdle /\ ClipIdle /\ CalcIdle /\ ZtsIdle /\ IntIdle
    /\ RcIdle /\ MainInit /\ PreoptIdle /\ ClosIdle /\ LcIdle

MainSpecNext ==
    \/ MainSetup \/ MainStocastic \/ MainOpt \/ MainTsopt \/ MainIrc
    \/ MainEndopt \/ MainCalculations

\* one invocation of main
MainSpec == MainSpecInit /\ [][MainSpecNext]_vars

PreoptSpecInit ==
    /\ OptIdle /\ ClipIdle /\ CalcIdle /\ ZtsIdle /\ IntIdle
    /\ RcIdle /\ MainIdle /\ PreoptInit /\ ClosIdle /\ LcIdle

PreoptSpecNext == PreoptStart \/ PreoptOptimize \/ PreoptFinish

\* one call of run_preopt
PreoptSpec == PreoptSpecInit /\ [][PreoptSpecNext]_vars

ClosSpecInit ==
    /\ OptIdle /\ ClipIdle /\ CalcIdle /\ ZtsIdle /\ IntIdle
    /\ RcIdle /\ MainIdle /\ PreoptIdle /\ ClosInit /\ LcIdle

ClosSpecNext == GetCalcClosure \/ CalcGetter

\* a getter is made by get_calc_closure and called
ClosSpec == ClosSpecInit /\ [][ClosSpecNext]_vars

LcSpecInit ==
    /\ OptIdle /\ ClipIdle /\ CalcIdle /\ ZtsIdle /\ IntIdle
    /\ RcIdle /\ MainIdle /\ PreoptIdle /\ ClosIdle /\ LcInit

LcSpecNext == GetLastCalcCycle

\* get_last_calc_cycle in a directory with logs
LcSpec == LcSpecInit /\ [][LcSpecNext]_vars

\* ------------------------------------------------------------------------
\* Properties of the string optimizer
\* ------------------------------------------------------------------------
\* the last handler was a cycle of the run
InCycle == Len(events) > 0 /\ events[1] = "optimize"

\* the running cycle is the first one, or the size of the coordinate vector
\* differs from the one recorded in the cycle before
SizeChangedOrFirst ==
    Len(coords) = 1 \/ coords[Len(coords)] # coords[Len(coords) - 1]

\* the size of the coordinate vector differs from the one of the cycle before
SizeChanged ==
    Len(coords) >= 2 /\ coords[Len(coords)] # coords[Len(coords) - 1]

\* component c clipped to [-m, m]
Clipped(c, m) ==
    IF FLess(m, FAbs(c)) THEN (IF c[1] > 0 THEN m ELSE FNeg(m)) ELSE c

WithinMaxStep(v, m) == \A i \in 1..Len(v) : FLeq(FAbs(v[i]), m)

\* C1 as stated: in the first cycle and in every cycle whose coordinate
\* vector differs in length from the previous cycle's, the returned step is
\* forces/gamma.
C1_Original ==
    (InCycle /\ SizeChangedOrFirst)
        => Last(steps) = [i \in 1..Len(Last(forces)) |->
                             FDiv(Last(forces)[i], gamma)]

\* C1 amended: in the first cycle and in every cycle whose coordinate vector
\* differs in length from the previous cycle's, the returned step is
\* forces/gamma with every component clipped to [-max_step, max_step],
\* whatever forces and steps earlier cycles recorded.
C1_Amended ==
    (InCycle /\ SizeChangedOrFirst)
        => Last(steps) = [i \in 1..Len(Last(forces)) |->
                             Clipped(FDiv(Last(forces)[i], gamma), max_step)]

\* a cycle after a growth of the path, with a non-zero step recorded before
\* and forces that give both a clipped and an unclipped component
C1_Witness ==
    /\ InCycle
    /\ SizeChanged
    /\ steps[Len(steps) - 1][1] # Zero
    /\ Last(forces)[1] = <<-1, 1>>
    /\ Last(forces)[2] = <<1, 20>>
    /\ Last(steps)[1] = <<-1, 10>>
    /\ Last(steps)[2] = <<1, 25>>

\* the path reported fully grown in every cycle from cycle 0 onward
GrownFromStart == Len(coords) >= 1 /\ coords[1] = CoordsSize(MaxImages)

\* C2: with stop_in_when_full = N >= 0 and a path that is fully grown from
\* cycle 0 onward, full_stop is true in cycle N and in no other cycle, and
\* the run then ends whatever the generic convergence check says.
C2_Countdown ==
    (InCycle /\ stop_in_when_full >= 0 /\ GrownFromStart)
        => /\ info.full_stop <=> (info.cycle = stop_in_when_full)
           /\ info.full_stop => pc = "converged"
           /\ stop_in = stop_in_when_full - info.cycle

\* the countdown of 2 forces the stop in cycle 2 without generic convergence
C2_Witness ==
    /\ InCycle
    /\ GrownFromStart
    /\ stop_in_when_full = 2
    /\ info.cycle = 2
    /\ info.full_stop
    /\ ~info.converged
    /\ pc = "converged"

\* C3: check_convergence returns true whenever full_stop is true, returns
\* the generic verdict whenever full_stop is false, and changes the
\* countdown only by a single decrement in a cycle whose path is fully
\* grown.
C3_Precedence ==
    InCycle =>
        /\ info.full_stop => (info.is_converged /\ pc = "converged")
        /\ ~info.full_stop => (info.is_converged = info.converged)
        /\ (pc = "converged") = info.is_converged
        /\ info.fully_grown = (Last(coords) = CoordsSize(MaxImages))
        /\ stop_in = info.stop_in_before - (IF info.fully_grown THEN 1 ELSE 0)

\* the path became fully grown during the run, and the countdown then
\* stopped the run although the generic check said no
C3_Witness ==
    /\ InCycle
    /\ ~GrownFromStart
    /\ info.full_stop
    /\ ~info.converged
    /\ info.is_converged
    /\ stop_in_when_full = 1

\* C3, the countdown as a step property
C3_CountdownSteps ==
    [][stop_in' # stop_in =>
          \/ pc = "new"
          \/ (stop_in' = stop_in - 1 /\ FullyGrown(nimages)
              /\ cur_cycle' <= cur_cycle + 1)]_vars

\* C4: restrict_step_components returns every component with |c| <= max_step
\* unchanged and every component with |c| > max_step as sign(c)*max_step;
\* a second application changes nothing.
C4_Restrict ==
    clip_calls >= 1 =>
        \A i \in 1..Len(clip_orig) :
            /\ FLeq(FAbs(clip_orig[i]), clip_max_step)
                   => clip_steps[i] = clip_orig[i]
            /\ FLess(clip_max_step, FAbs(clip_orig[i]))
                   => clip_steps[i] = (IF clip_orig[i][1] > 0
                                       THEN clip_max_step
                                       ELSE FNeg(clip_max_step))

\* two calls on a vector with a component below -max_step and one within
C4_Witness ==
    /\ clip_calls = 2
    /\ clip_max_step = <<1, 10>>
    /\ clip_orig = <<<<-1, 1>>, <<1, 20>>>>
    /\ clip_steps = <<<<-1, 10>>, <<1, 20>>>>

\* C5: every step returned by optimize has all its components within
\* [-max_step, max_step], and it is the clipping of the combined step.
C5_StepsBounded ==
    /\ \A k \in 1..Len(steps) : WithinMaxStep(steps[k], max_step)
    /\ InCycle => Last(steps) = [i \in 1..Len(info.unclipped) |->
                                    Clipped(info.unclipped[i], max_step)]

\* C6: in a cycle that is neither the first nor follows a change of size,
\* the unclipped step is forces/gamma + ratio * previous step with
\* ratio = min(|forces|^2 / |forces_prev|^2, 1) and 0 <= ratio <= 1.
C6_Ratio ==
    (InCycle /\ ~SizeChangedOrFirst) =>
        LET k == Len(forces)
            ratio == info.quot
        IN /\ info.phase = "STEADY"
           /\ ratio = PyMin(FDiv(NormSq(forces[k]), NormSq(forces[k - 1])),
                            One)
           /\ info.unclipped =
                  [i \in 1..Len(forces[k]) |->
                      FAdd(FDiv(forces[k][i], gamma),
                           FMul(ratio, steps[k - 1][i]))]
           /\ FLeq(Zero, ratio)
           /\ FLeq(ratio, One)

\* C7: an optimizer constructed on a geometry that is not a chain of images
\* fails in the constructor; no cycle runs, no forces are evaluated, no step
\* is made and nothing is aligned.
C7_FailFast ==
    ~is_cos =>
        /\ pc \in {"new", "AssertionError"}
        /\ cur_cycle = 0
        /\ coords = <<>>
        /\ forces = <<>>
        /\ steps = <<>>
        /\ ~InCycle
        /\ "procrustes" \notin Range(events)

\* the constructor has failed on a single structure
C7_Witness ==
    /\ ~is_cos
    /\ pc = "AssertionError"
    /\ events = <<"__init__">>

\* C8 as stated: in every cycle the images are aligned exactly when
\* alignment is enabled, the coordinates are Cartesian and the coordinate
\* count changed from the previous cycle.
C8_Original ==
    InCycle =>
        (("procrustes" \in Range(events))
            <=> (align /\ is_cart_opt /\ SizeChanged))

\* C8 amended: in every cycle the images are aligned exactly when alignment
\* is enabled, the coordinates are Cartesian and the cycle is the first one
\* or the coordinate count changed from the previous cycle; prepare_opt
\* aligns once more before the first cycle under the same two flags; an
\* alignment of a cycle precedes the forces of that cycle; with alignment
\* disabled or other coordinates nothing is ever aligned.
C8_Amended ==
    /\ InCycle =>
          /\ ("procrustes" \in Range(events))
                 <=> (align /\ is_cart_opt /\ SizeChangedOrFirst)
          /\ \A i, j \in 1..Len(events) :
                 (events[i] = "procrustes" /\ events[j] = "forces") => i < j
          /\ Cardinality({i \in 1..Len(events) : events[i] = "procrustes"})
                 <= 1
          /\ "forces" \in Range(events)
    /\ (Len(events) > 0 /\ events[1] = "prepare_opt") =>
          (("procrustes" \in Range(events)) <=> (align /\ is_cart_opt))
    /\ (~align \/ ~is_cart_opt) => "procrustes" \notin Range(events)

\* an alignment in a cycle after a growth of the path, before the forces
C8_Witness ==
    /\ InCycle
    /\ SizeChanged
    /\ align
    /\ is_cart_opt
    /\ events[2] = "procrustes"
    /\ events[3] = "forces"

\* ------------------------------------------------------------------------
\* Properties of the calculators
\* ------------------------------------------------------------------------
\* the calculator that image i (counted from 1) evaluates with: the wrapped
\* one of a wrapper, else its own
Evaluator(i) ==
    IF calcs[image_calc[i]].calculator # 0
    THEN calcs[image_calc[i]].calculator
    ELSE image_calc[i]

\* C9: after run_opt has attached the calculators, every image has its own
\* calculator with calc_number equal to its index, no calculator is shared
\* by two images, and this includes the inner calculator of a wrapper.
C9_OwnCalculator ==
    proc # "run_opt" =>
        /\ \A i \in 1..Len(image_calc) :
              /\ calcs[image_calc[i]].calc_number = i - 1
              /\ calcs[Evaluator(i)].calc_number = i - 1
        /\ \A i, j \in 1..Len(image_calc) :
              i # j => /\ image_calc[i] # image_calc[j]
                       /\ Evaluator(i) # Evaluator(j)

\* the Calculator.run that ended last failed in its try block
RunFailed == run_info.fail \in {"run_after", "parser", "keep"}

\* exceptions that are errors dedicated to a failed evaluation
DedicatedErrors == {"EvaluationError", "CalculationFailed"}

\* C10: a Calculator.run whose post-processing or parsing fails ends with a
\* dedicated error that goes to its caller; it returns no results and the
\* run does not go on.
C10_DedicatedError ==
    RunFailed =>
        /\ run_info.raised \in DedicatedErrors
        /\ ~run_info.returned
        /\ proc # "attached"

\* ------------------------------------------------------------------------
\* Properties of the reparametrization
\* ------------------------------------------------------------------------
\* reparametrize has been called at least once
Reparametrized == zts_info.status # "none"

\* the number of images of the string
NumImages == Len(zts_coords) \div CoordsLength

\* the coordinates of image i in the coordinate vector cs
Image(cs, i) == [d \in 1..CoordsLength |-> cs[(i - 1) * CoordsLength + d]]

\* C11: reparametrize, in 'equal' and in 'energy' mode and on any string of
\* at least four images, leaves the coordinates of the first and of the last
\* image as they were.
C11_EndpointsFixed ==
    (Reparametrized /\ zts_param \in {"equal", "energy"} /\ NumImages >= 4)
        => /\ Image(zts_coords, 1) = Image(zts_info.before, 1)
           /\ Image(zts_coords, NumImages) = Image(zts_info.before, NumImages)

\* apart from the strings whose parameters are all nan, the end points stay
C11_FiniteEndpointsFixed ==
    (Reparametrized /\ NaN \notin Range(zts_info.u)) =>
        /\ Image(zts_coords, 1) = Image(zts_info.before, 1)
        /\ Image(zts_coords, NumImages) = Image(zts_info.before, NumImages)

\* a reparametrization that moved the inner images
InnerMoved ==
    /\ zts_info.status = "ok"
    /\ NaN \notin Range(zts_info.u)
    /\ zts_coords # zts_info.before

\* coordinate d of every image in the coordinate vector cs
Column(cs, d) ==
    [i \in 1..(Len(cs) \div CoordsLength) |-> Image(cs, i)[d]]

\* C12: after any sequence of reparametrize calls the string has the number
\* of images and of coordinates per image it had: the new coordinate vector
\* has N * coords_length entries, image by image, coordinate d of image i
\* being the fitted curve of coordinate d at the i-th of the N equally
\* spaced parameters.
C12_ShapeKept ==
    /\ Len(zts_coords) = Len(zts_energies) * CoordsLength
    /\ zts_info.status = "ok" =>
           \A i \in 1..NumImages : \A d \in 1..CoordsLength :
               Image(zts_coords, i)[d] =
                   SplineValue(zts_info.u, Column(zts_info.before, d),
                               Linspace(NumImages)[i])

C12_Witness ==
    /\ zts_calls = MaxReparam
    /\ zts_info.status = "ok"
    /\ NaN \notin Range(zts_coords)
    /\ NumImages >= 4

\* the vector from image i to image j of cs
Segment(cs, i, j) == VecSub(Image(cs, j), Image(cs, i))

\* the images of cs lie on the straight line from the first to the last
\* image, in the order of their indices and no two at the same place
StraightInOrder(cs) ==
    LET n == Len(cs) \div CoordsLength
        whole == Segment(cs, 1, n)
        along(i) == DotFrom(Segment(cs, 1, i), whole, 1)
    IN  /\ \A i \in 1..n : \A a, b \in 1..CoordsLength :
               FMul(Segment(cs, 1, i)[a], whole[b]) =
                   FMul(Segment(cs, 1, i)[b], whole[a])
        /\ \A i \in 1..(n - 1) : FLess(along(i), along(i + 1))

\* the distances between consecutive images of cs are all equal
EquallySpaced(cs) ==
    \A i, j \in 1..((Len(cs) \div CoordsLength) - 1) :
        NormSq(Segment(cs, i, i + 1)) = NormSq(Segment(cs, j, j + 1))

\* the parameters u run from 0 to 1 in steps proportional to the distances
\* between consecutive images of cs
ByChordLength(u, cs) ==
    /\ u[1] = Zero
    /\ Last(u) = One
    /\ \A i, j \in 1..(Len(u) - 1) :
           FMul(FMul(FSub(u[i + 1], u[i]), FSub(u[i + 1], u[i])),
                NormSq(Segment(cs, j, j + 1))) =
               FMul(FMul(FSub(u[j + 1], u[j]), FSub(u[j + 1], u[j])),
                    NormSq(Segment(cs, i, i + 1)))

\* C13 as stated: 'equal' mode gives the images the uniform parameters
\* 0, 1/(N-1), ..., 1 for the fit and resamples at N equally spaced
\* parameters, so that images at non-uniform places on a straight line are
\* equally spaced afterwards.
C13_Original ==
    (zts_param = "equal" /\ zts_info.status = "ok") =>
        /\ zts_info.u = Linspace(NumImages)
        /\ StraightInOrder(zts_info.before) => EquallySpaced(zts_coords)

\* C13 amended: 'equal' mode gives the images parameters proportional to
\* their cumulative distance along the string (0 for the first, 1 for the
\* last image) and resamples at N equally spaced parameters, so that images
\* lying in order at non-uniform places on a straight line are equally
\* spaced afterwards.
C13_Amended ==
    (zts_param = "equal" /\ zts_info.status = "ok") =>
        /\ ByChordLength(zts_info.u, zts_info.before)
        /\ StraightInOrder(zts_info.before) => EquallySpaced(zts_coords)

C13_Witness ==
    /\ zts_param = "equal"
    /\ zts_info.status = "ok"
    /\ StraightInOrder(zts_info.before)
    /\ ~EquallySpaced(zts_info.before)
    /\ EquallySpaced(zts_coords)

\* 'energy' mode got as far as the spline fit
EnergyFit == zts_param = "energy" /\ zts_info.arc_segments # <<>>

\* |mean energy| of segment i before the last call
AbsMean(i) == FAbs(MeanEnergies(zts_energies)[i])

LargestMean ==
    FMax([i \in 1..(Len(zts_energies) - 1) |-> AbsMean(i)])

\* C14: in 'energy' mode, for every string whose images all have an energy,
\* the parameters handed to the spline fit start at 0, end at 1 and are
\* strictly increasing, and before the normalization the increment of
\* segment i is sqrt(|mean energy of i| / largest |mean energy|) times the
\* distance between its two images.
C14_Parameters ==
    EnergyFit =>
        /\ zts_info.arc_segments[1] = Zero
        /\ Last(zts_info.arc_segments) = One
        /\ \A i \in 1..(Len(zts_info.arc_segments) - 1) :
               /\ FLess(zts_info.arc_segments[i], zts_info.arc_segments[i + 1])
               /\ LET inc == FSub(zts_info.summed[i + 1], zts_info.summed[i])
                  IN  /\ FLeq(Zero, inc)
                      /\ FMul(FMul(inc, inc), LargestMean) =
                             FMul(AbsMean(i),
                                  NormSq(Segment(zts_info.before, i, i + 1)))

\* the string before the last call is finite and every segment of it has a
\* length and a mean energy other than zero
NoEmptySegment ==
    /\ NaN \notin Range(zts_info.before)
    /\ \A i \in 1..(Len(zts_energies) - 1) :
           /\ AbsMean(i) # Zero
           /\ NormSq(Segment(zts_info.before, i, i + 1)) # Zero

\* on those strings the parameters are as C14 says
C14_RegularParameters == (EnergyFit /\ NoEmptySegment) => C14_Parameters

\* C15: a SimpleZTS configured with a mode other than 'equal' and 'energy'
\* is rejected when it is constructed: no such string exists that is ready
\* to be reparametrized, and no reparametrize call is what reports the mode.
C15_RejectedAtConstruction ==
    /\ zts_param \notin {"unset", "equal", "energy"} => zts_pc # "ready"
    /\ zts_info.status # "UnboundLocalError"

\* the last reparametrize call did not come to its end
ReparamFailed == zts_info.status \notin {"none", "ok"}

\* C16: reparametrize on a string of fewer than four images fails with an
\* error in both modes, and a reparametrize that fails (too few images, an
\* unknown mode, an image without energy in 'energy' mode) leaves the
\* coordinates of the string exactly as they were.
C16_FailureKeepsCoords ==
    /\ (Reparametrized /\ zts_param \in {"equal", "energy"} /\ NumImages < 4)
           => zts_info.status \in {"TypeError", "ValueError"}
    /\ ReparamFailed => zts_coords = zts_info.before

C16_Witness ==
    /\ zts_param \in {"equal", "energy"}
    /\ NumImages = 3
    /\ zts_info.status = "TypeError"
    /\ NoEnergy \notin Range(zts_energies)
    /\ zts_coords = zts_info.before

\* ------------------------------------------------------------------------
\* Properties of the primitives
\* ------------------------------------------------------------------------
ParallelCalled == par_call.op = "parallel"

NonZero(v) == NormSq(v) # Zero

\* u and v lie on one line through the origin
Collinear(u, v) ==
    \A a, b \in 1..Len(u) : FMul(u[a], v[b]) = FMul(u[b], v[a])

\* C17: with the default thresh, parallel is true for two non-zero vectors
\* one of which is a positive multiple of the other and false for two
\* orthogonal unit vectors; for non-zero vectors it is true exactly when
\* 1 - |cos| < thresh, so that negative multiples are parallel too, and its
\* result is the same for (u, v) and (v, u).
C17_Parallel ==
    ParallelCalled =>
        LET u == par_call.u
            v == par_call.v
            default == par_call.thresh = DefaultThresh
            close == FLess(FMul(FSub(One, par_call.thresh),
                                FMul(Norm(u), Norm(v))),
                           FAbs(Dot(u, v)))
        IN  /\ (default /\ NonZero(u) /\ NonZero(v) /\ Collinear(u, v))
                   => par_call.result = TRUE
            /\ (default /\ NormSq(u) = One /\ NormSq(v) = One
                    /\ Dot(u, v) = Zero) => par_call.result = FALSE
            /\ (NonZero(u) /\ NonZero(v)) => (par_call.result <=> close)
            /\ par_call.result = parallel(v, u, par_call.thresh)

C17_Witness ==
    /\ ParallelCalled
    /\ par_call.thresh = DefaultThresh
    /\ par_call.u # par_call.v
    /\ FLess(Dot(par_call.u, par_call.v), Zero)
    /\ par_call.result = TRUE

RhoCalled == rho_call.op = "rho"

\* the indices of the last rho call are those of two atoms
ValidIndices ==
    \A k \in 1..2 : rho_call.indices[k] \in 0..(Len(rho_call.atoms) - 1)

\* the distance between the atoms i and j (counted from 0) in coords3d
Distance(coords3d, i, j) == Norm(VecSub(coords3d[i + 1], coords3d[j + 1]))

\* the sum of the covalent radii of the atoms i and j (counted from 0)
CovRadSum(atoms, i, j) ==
    FAdd(CR[Lower(atoms[i + 1])], CR[Lower(atoms[j + 1])])

\* the same symbols up to case
SameElements(a, b) == \A k \in 1..Len(a) : Lower(a[k]) = Lower(b[k])

\* C18: rho is 1.0 when the distance of the two atoms is the sum of their
\* covalent radii and strictly decreasing in the distance beyond it; the
\* radii are looked up by the symbol whatever its case, and (i, j) and
\* (j, i) give the same value.
C18_Rho ==
    (RhoCalled /\ ValidIndices) =>
        LET atoms == rho_call.atoms
            coords3d == rho_call.coords3d
            i == rho_call.indices[1]
            j == rho_call.indices[2]
        IN  /\ rho_call.result.err = "none"
            /\ Distance(coords3d, i, j) = CovRadSum(atoms, i, j)
                   => rho_call.result.value = Exp(Zero)
            /\ \A farther \in RhoCoords3d :
                   (/\ FLeq(CovRadSum(atoms, i, j), Distance(coords3d, i, j))
                    /\ FLess(Distance(coords3d, i, j),
                             Distance(farther, i, j)))
                       => ExpLess(rho(atoms, farther, <<i, j>>).value,
                                  rho_call.result.value)
            /\ \A other \in RhoAtoms :
                   SameElements(other, atoms)
                       => rho(other, coords3d, <<i, j>>) = rho_call.result
            /\ rho(atoms, coords3d, <<j, i>>) = rho_call.result

C18_Witness ==
    /\ RhoCalled
    /\ ValidIndices
    /\ rho_call.indices[1] # rho_call.indices[2]
    /\ rho_call.result.value = Exp(Zero)
    /\ \E farther \in RhoCoords3d :
           ExpLess(rho(rho_call.atoms, farther, rho_call.indices).value,
                   rho_call.result.value)
    /\ \E other \in RhoAtoms :
           other # rho_call.atoms /\ SameElements(other, rho_call.atoms)

\* C19: rho called with an atom index outside 0..natoms-1, negative ones
\* included, fails with an error; it never returns a value computed from
\* another atom put in the place of the missing one.
C19_FailFast ==
    (RhoCalled /\ ~ValidIndices) => rho_call.result.err = "IndexError"

\* C20: no sequence of calculate, jacobian and weight calls, with or without
\* indices or f_damping of their own, changes the index list, the
\* periodicity flag or the auxiliary parameters of the primitive; indices
\* or f_damping given to a call are used by that call only; and the index
\* list is a copy that later changes of the constructor's argument do not
\* reach.
C20_Unchanged ==
    prim_pc = "ready" =>
        /\ lists[prim_indices] = prim_made.indices
        /\ prim_periodic = prim_made.periodic
        /\ prim_calc_kwargs = IF prim_made.calc_kwargs.given
                              THEN prim_made.calc_kwargs.value ELSE <<>>
        /\ prim_call.op \in {"calculate", "jacobian"} =>
               /\ prim_call.indices = IF prim_call.arg.given
                                      THEN prim_call.arg.value
                                      ELSE prim_made.indices
               /\ \A key \in DOMAIN prim_call.kwargs :
                      prim_call.kwargs[key] = prim_made.periodic
        /\ prim_call.op = "weight" =>
               prim_call.f_damping = IF prim_call.arg.given
                                     THEN prim_call.arg.value
                                     ELSE DefaultDamping

C20_Witness ==
    /\ prim_pc = "ready"
    /\ prim_changes > 0
    /\ lists[1] # prim_made.indices
    /\ prim_call.op = "calculate"
    /\ prim_call.prev_given
    /\ ~prim_call.arg.given
    /\ prim_call.indices = prim_made.indices

\* ------------------------------------------------------------------------
\* Properties of run.py
\* ------------------------------------------------------------------------
\* the place of the call e in the log of run_calculations, 0 without it
RcPlace(e) ==
    IF e \in Range(rc_log)
    THEN CHOOSE k \in 1..Len(rc_log) : rc_log[k] = e
    ELSE 0

\* the checkpoint data was handed from image i to image j
RcHanded(i, j) == <<"set_chkfiles", i, j>> \in Range(rc_log)

\* C21: run_calculations without a scheduler hands the checkpoint data of
\* the calculator of every image i that has a successor to the calculator
\* of image i+1, after calculation i and before calculation i+1; data goes
\* from an image to its direct successor only; and with calculators that
\* do not support the handoff all calculations still run.
C21_Handoff ==
    ~rc_scheduler =>
        /\ rc_chkfiles =>
               \A j \in 1..(rc_geoms - 1) :
                   <<"run_calculation", j>> \in Range(rc_log) =>
                       /\ RcHanded(j - 1, j)
                       /\ RcPlace(<<"run_calculation", j - 1>>)
                              < RcPlace(<<"set_chkfiles", j - 1, j>>)
                       /\ RcPlace(<<"set_chkfiles", j - 1, j>>)
                              < RcPlace(<<"run_calculation", j>>)
        /\ \A i, j \in 0..(rc_geoms - 1) : RcHanded(i, j) => j = i + 1
        /\ (rc_pc = "done" /\ ~rc_chkfiles) =>
               \A j \in 0..(rc_geoms - 1) :
                   <<"run_calculation", j>> \in Range(rc_log)

\* what holds of the handoff: it is made for every image but the last two,
\* between the two calculations, to the direct successor only, and every
\* calculation runs whether the calculators support it or not
C21_AllButTheLastTwo ==
    ~rc_scheduler =>
        /\ rc_chkfiles =>
               \A j \in 1..(rc_geoms - 2) :
                   <<"run_calculation", j>> \in Range(rc_log) =>
                       /\ RcPlace(<<"run_calculation", j - 1>>)
                              < RcPlace(<<"set_chkfiles", j - 1, j>>)
                       /\ RcPlace(<<"set_chkfiles", j - 1, j>>)
                              < RcPlace(<<"run_calculation", j>>)
                       /\ rc_chk[j + 1] = j
        /\ \A i, j \in 0..(rc_geoms - 1) : RcHanded(i, j) => j = i + 1
        /\ ~RcHanded(rc_geoms - 2, rc_geoms - 1)
        /\ rc_pc = "done" =>
               \A j \in 0..(rc_geoms - 1) :
                   <<"run_calculation", j>> \in Range(rc_log)

\* parallel with a vector of length zero does not take its verdict from the
\* nan of 0/0
C22_ParallelHandled ==
    (ParallelCalled /\ (~NonZero(par_call.u) \/ ~NonZero(par_call.v)))
        => ~IsNaN(par_call.dot)

\* optimize in a STEADY cycle after forces of norm zero has a finite ratio
\* and returns a step without nan
C22_OptimizeHandled ==
    (InCycle /\ info.phase = "STEADY"
        /\ NormSq(forces[Len(forces) - 1]) = Zero)
        => /\ info.quot[2] # 0
           /\ NaN \notin Range(Last(steps))

\* C22: a norm of zero never silently gives nan or a garbage verdict:
\* Primitive.parallel called with a zero-length vector, and optimize in a
\* STEADY cycle whose previous forces have norm zero, handle the case
\* instead of dividing by zero and passing the result on.
C22_NoSilentNaN == C22_ParallelHandled /\ C22_OptimizeHandled

\* the stages of a full run, in their order
StageOrder == <<"opt", "tsopt", "irc", "endopt">>

\* the section key was configured in the run_dict main was called with
Configured(key) == main_given[key] # NoSection

\* the places of a stage in the log of main
MainPlaces(stage) == {k \in 1..Len(main_log) : main_log[k] = stage}

\* the stages that ran did so in the fixed order, each at most once, and
\* the end optimization only after an IRC
MainInOrder ==
    /\ \A a, b \in 1..Len(StageOrder) :
           \A k \in MainPlaces(StageOrder[a]), l \in MainPlaces(StageOrder[b]) :
               k < l => a < b
    /\ \A a \in 1..Len(StageOrder) :
           Cardinality(MainPlaces(StageOrder[a])) <= 1
    /\ MainPlaces("endopt") # {} => MainPlaces("irc") # {}

\* C24: main runs the configured stages in the order optimization, TS
\* optimization, IRC, end optimization, each at most once; the end
\* optimization runs only if an IRC ran; none of these stages runs when a
\* stochastic section is configured; and the fallback of plain calculations
\* runs only when none of opt, tsopt, irc, endopt and stocastic is
\* configured.
C24_Stages ==
    /\ MainInOrder
    /\ Configured("stocastic") =>
           \A a \in 1..Len(StageOrder) : MainPlaces(StageOrder[a]) = {}
    /\ MainPlaces("calculations") # {} =>
           \A key \in {"opt", "tsopt", "irc", "endopt", "stocastic"} :
               ~Configured(key)

\* with a stochastic section that has an option besides its type, and with
\* none, the stages are as C24 says
C24_StagesWithOptions ==
    main_given["stocastic"] # {"type"} => C24_Stages

\* the structures in the files of the list out, in the order of the list
RECURSIVE Structures(_, _)
Structures(out, k) ==
    IF k > Len(out) THEN <<>>
    ELSE pre_files[out[k]] \o Structures(out, k + 1)

\* the end point named by str_ was selected for the pre-optimization
Selected(str_) == pre_preopt \in {str_, "both"}

\* C25: for each of the modes 'first', 'last' and 'both' run_preopt returns
\* a list of the first end point, the intermediate geometries (present
\* exactly when the input had more than two geometries) and the last end
\* point, in this order; an end point selected for the pre-optimization is
\* there with its optimized structure, one not selected with the structure
\* of the input.
C25_PreoptList ==
    pre_pc = "returned" =>
        LET n == Len(pre_geoms)
            all == Structures(out_xyz, 1)
        IN  /\ Len(out_xyz) = IF n > 2 THEN 3 ELSE 2
            /\ pre_files[out_xyz[1]] =
                   <<Structure(1, IF Selected("first") THEN "optimized"
                                  ELSE "input")>>
            /\ pre_files[Last(out_xyz)] =
                   <<Structure(n, IF Selected("last") THEN "optimized"
                                  ELSE "input")>>
            /\ n > 2 => pre_files[out_xyz[2]] =
                            [i \in 1..(n - 2) |-> Structure(i + 1, "input")]
            /\ Len(all) = n
            /\ \A i \in 1..n : all[i].geom = i

\* mode 'first' on an input with intermediate geometries
C25_Witness ==
    /\ pre_pc = "returned"
    /\ pre_preopt = "first"
    /\ Len(pre_geoms) > 2
    /\ Len(out_xyz) = 3
    /\ pre_files[out_xyz[1]] = <<Structure(1, "optimized")>>
    /\ pre_files[out_xyz[3]] = <<Structure(Len(pre_geoms), "input")>>

\* the place of the step e in the events of the last Calculator.run, 0
\* without it
RunPlace(e) ==
    IF e \in Range(run_info.events)
    THEN CHOOSE k \in 1..Len(run_info.events) : run_info.events[k] = e
    ELSE 0

\* what C26 says of the Calculator.run that ended last
RunLeftClean ==
    LET c == run_info.calc
        name == calcs[c].calc_number
    IN  /\ calcs[c].calc_counter = run_info.counter + 1
        /\ <<c, run_info.counter>> \notin tmpdirs
        /\ RunPlace("clean") > 0
        /\ run_info.fail = "none" =>
               /\ 0 < RunPlace("keep") /\ RunPlace("keep") < RunPlace("clean")
               /\ \A ext \in to_keep : <<name, run_info.counter, ext>> \in files
        /\ RunFailed =>
               /\ 0 < RunPlace("backup")
               /\ RunPlace("backup") < RunPlace("clean")
               /\ name \in backups

\* C26: every call of Calculator.run leaves calc_counter one higher than
\* before and the temporary directory deleted, on the success path and on
\* the crash path alike; the directory is deleted only after the files to
\* keep, or the backup of the crash, were copied out of it, and the files a
\* run keeps carry the counter the run started with.
C26_CounterAndCleanup == run_info.calc # 0 => RunLeftClean

\* the same of the calls that got as far as starting the program
C26_StartedRuns ==
    (run_info.calc # 0 /\ run_info.fail # "Popen") => RunLeftClean

\* the calculators that were made for a restart after cycle k >= 1
Restarted == {c \in 1..Len(calcs) : calcs[c].last_calc_cycle >= 1}

\* C27: a Calculator constructed for a restart with last_calc_cycle = k,
\* k >= 1, starts with calc_counter = k + 1, so that the files of its first
\* run never get the names of the files kept from cycle k; without
\* last_calc_cycle the counter starts at 0.
C27_RestartCounter ==
    /\ run_info = NoRun =>
           \A c \in 1..Len(calcs) :
               /\ c \in Restarted =>
                      calcs[c].calc_counter = calcs[c].last_calc_cycle + 1
               /\ calcs[c].last_calc_cycle = NoLastCycle =>
                      calcs[c].calc_counter = 0
    /\ run_info.calc \in Restarted =>
           run_info.counter > calcs[run_info.calc].last_calc_cycle

\* without a restart the counter starts at 0, and with one every run after
\* the first has a counter of its own
C27_FreshCounter ==
    /\ run_info = NoRun =>
           \A c \in 1..Len(calcs) :
               calcs[c].last_calc_cycle = NoLastCycle =>
                   calcs[c].calc_counter = 0
    /\ (run_info.calc \in Restarted
            /\ RunsOf(run_info.calc) > 1 /\ run_info.fail # "Popen") =>
           run_info.counter > calcs[run_info.calc].last_calc_cycle

\* the three decimal digits of n < 1000
ThreeDigits(n) ==
    <<Digit(n \div 100), Digit((n \div 10) % 10), Digit(n % 10)>>

\* the number of "$IMAGE" among the first i parts
PatternsTo(parts, i) ==
    Cardinality({j \in 1..i : parts[j] = "$IMAGE"})

\* result is parts with every "$IMAGE" replaced by the three digits
ExpandedTo(parts, digits, result) ==
    /\ Len(result) = Len(parts) + 2 * PatternsTo(parts, Len(parts))
    /\ \A i \in 1..Len(parts) :
           LET at == i + 2 * PatternsTo(parts, i - 1)
           IN  IF parts[i] = "$IMAGE"
               THEN /\ result[at] = digits[1]
                    /\ result[at + 1] = digits[2]
                    /\ result[at + 2] = digits[3]
               ELSE result[at] = parts[i]

\* C28: the n-th call of a getter of get_calc_closure makes a new
\* calculator with calc_number n-1 and with '$IMAGE' in every string option
\* replaced by the three digits, zero-padded, of n-1; the calc_kwargs given
\* to get_calc_closure are never changed, so that the pattern is expanded
\* in every later call as well.
C28_Getter ==
    /\ clos_kwargs = clos_given
    /\ Len(clos_calcs) = clos_index
    /\ \A n \in 1..Len(clos_calcs) :
           /\ clos_calcs[n].calc_number = n - 1
           /\ DOMAIN clos_calcs[n].kwargs = DOMAIN clos_given
           /\ \A key \in DOMAIN clos_given :
                  IF clos_given[key].type = "str"
                  THEN /\ clos_calcs[n].kwargs[key].type = "str"
                       /\ ExpandedTo(clos_given[key].value,
                                     ThreeDigits(n - 1),
                                     clos_calcs[n].kwargs[key].value)
                  ELSE clos_calcs[n].kwargs[key] = clos_given[key]

\* the third call expands a string that holds the pattern twice
C28_Witness ==
    /\ Len(clos_calcs) = 3
    /\ "fn" \in DOMAIN clos_given
    /\ clos_given["fn"] = Str(<<"a", "$IMAGE", "b", "$IMAGE">>)
    /\ clos_calcs[3].kwargs["fn"] =
           Str(<<"a", "0", "0", "2", "b", "0", "0", "2">>)
    /\ clos_calcs[3].calc_number = 2

\* the cycles that have left logs
LoggedCycles == {c \in CycleNumbers : lc_counts[c] > 0}

\* the cycle before c among the cycles with logs; c itself for the first
Predecessor(c) ==
    IF \E b \in LoggedCycles : b < c
    THEN CHOOSE b \in LoggedCycles :
             b < c /\ \A a \in LoggedCycles : a < c => a <= b
    ELSE c

\* the cycles that have fewer logs than the cycle before them
Unfinished ==
    {c \in LoggedCycles : lc_counts[c] < lc_counts[Predecessor(c)]}

\* the last cycle before the first unfinished one in numeric order, the
\* last cycle of all when none is unfinished, 0 without logs
LastFinished ==
    IF LoggedCycles = {} THEN 0
    ELSE IF Unfinished = {}
    THEN CHOOSE c \in LoggedCycles : \A a \in LoggedCycles : a <= c
    ELSE Predecessor(CHOOSE c \in Unfinished : \A a \in Unfinished : c <= a)

\* C29: get_last_calc_cycle returns the number of the last completely
\* finished cycle: going through the cycles of the calculator logs in
\* increasing numeric order it returns the last cycle before the first one
\* that has fewer logs than the cycle before it, and 0 when there are no
\* logs.
C29_LastFinished == lc_pc = "returned" => lc_result = LastFinished

\* the same of the logs whose cycles all have three digits
C29_ThreeDigitCycles ==
    (lc_pc = "returned" /\ \A c \in LoggedCycles : c < 1000)
        => lc_result = LastFinished

\* ------------------------------------------------------------------------
\* The default countdown
\* ------------------------------------------------------------------------
\* C30: with the default stop_in_when_full = -1 the countdown of the fully
\* grown path never forces the end: full_stop is false in every call of
\* check_convergence, however many cycles the path stays fully grown, and
\* the run ends only by the generic convergence or by the cycle limit.
C30_DefaultNeverStops ==
    (InCycle /\ stop_in_when_full = -1)
        => /\ ~info.full_stop
           /\ info.is_converged = info.converged
           /\ pc = "converged" => info.converged
           /\ pc \in {"running", "converged", "max_cycles"}
           /\ info.fully_grown => stop_in < 0

\* the default countdown on a path that stayed fully grown for three cycles
\* or more, the run ended by the limit of cycles
C30_Witness ==
    /\ InCycle
    /\ stop_in_when_full = -1
    /\ GrownFromStart
    /\ info.cycle >= 2
    /\ stop_in = -(info.cycle + 1)
    /\ ~info.full_stop
    /\ pc = "max_cycles"
====
